---------------------------- MODULE Spec2Model ----------------------------
(***************************************************************************)
(* Model of the chat backbone of AWS_fullstack: the Batch Writer and cache *)
(* mirror (backend/services/chatService.js, backend/utils/queue.js), the   *)
(* socket handlers (backend/sockets/chat.js, server.js), the Session Store *)
(* (backend/config/redis.js) and the bus adapter                           *)
(* (backend/adapters/OptimizedRedisAdapter.js).                            *)
(*                                                                         *)
(* A Node process runs one event loop: the code between two awaits that    *)
(* suspend on I/O is one atomic step.  Each action below is one such step. *)
(***************************************************************************)
EXTENDS Integers, Sequences, FiniteSets, TLC

\* ------------------------------------------------------------------ bounds
MaxMsgs == 2        \* message objects ever created
MaxClock == 1       \* Date.now() ranges over 0..MaxClock
MaxStore == 3       \* records the Message Store may hold
MaxFlights == 2     \* flushMessageBuffer runs in flight at once
MaxSessions == 2    \* session ids ever generated by createSession
MaxSessCalls == 2   \* Session Store calls in flight at once
MaxSysMsgs == 2     \* system messages the room handlers may submit
MaxBusCalls == 2    \* bus subscribe / unsubscribe calls in flight at once
MaxLoadMsgs == 3    \* messages submitted in the history-read scenario
MaxLimit == 2       \* largest page size asked of loadMessages
MaxRoomCalls == 1   \* room handlers suspended on the Room collection at once

Rooms == {"R1", "R2"}
Users == {"u1", "u2", "u3"}
Sockets == {1, 2, 3}
Procs == {"p1", "p2"}

\* The server process a socket is attached to (fixed by the load balancer).
SockProc(s) == IF s = 3 THEN "p2" ELSE "p1"

NoRoom == "none"
NoUser == "nobody"
NoSession == 0

VARIABLES
    \* ---- ChatService (one process): chatService.js
    now,            \* Date.now()
    msgs,           \* message objects created so far: Seq of [room, ts, type, origin, sender]
    messageBuffer,  \* this.messageBuffer: Seq of message ids
    flights,        \* flushMessageBuffer runs suspended at an await: set of [batch, pc]
    store,          \* the Message Store: Seq of [msg, via]
    cacheIndex,     \* zset chat:room:<room>:messages: set of <<room, ts>>
    cachePayload,   \* key chat:message:<room>:<ts>: [Rooms \X Clock -> message id or 0]
    calls,          \* handleMessage runs suspended at an await: set of [msg, pc, sock]
    jobs,           \* 'newMessage' jobs waiting in the bull queue: set of message ids
    queueIndex,     \* zset messages:<room> written by the queue worker: set of message ids
    accepted,       \* history: message ids that were pushed to messageBuffer
    requeued,       \* history: message ids of batches whose flush failed
    \* ---- sockets: chat.js, server.js
    sockState,      \* per socket: "idle", "auth", "active", "closed"
    sockUser,       \* socket.user.id (the token's user while authenticating)
    sockSession,    \* socket.handshake.auth.sessionId
    sockRooms,      \* the socket.io rooms the socket has joined
    received,       \* per socket: the events delivered to it, set of <<event, payload>>
    broadcasts,     \* history: the room broadcasts emitted, set of [ev, room, msg, durable]
    participants,   \* Room.participants in the database: [Rooms -> SUBSET Users]
    \* ---- Session Store: redis.js
    sessionStore,   \* Redis key session:<user>: the record's session id, or NoSession
    sessCalls,      \* createSession / validateSession runs suspended at an await
    nextSid,        \* the next fresh session id (generateSessionId)
    latest,         \* history: per user, the newest id a returned createSession created
    verdicts,       \* history: what validateSession calls returned
    \* ---- Connection Coordinator (per process): chat.js
    connectedUsers, \* connectedUsers: [Procs -> [Users -> socket id or 0]]
    userRooms,      \* userRooms: [Procs -> [Users -> room or NoRoom]]
    sockPrev,       \* per socket in the auth middleware: the existing socket it hands off
    graceTimers,    \* setTimeout of the connection handler: sockets to be ended
    roomCalls,      \* joinRoom / leaveRoom / disconnect handlers suspended at an await
    authOk,         \* history: per socket, whether its session validation succeeded
    superseded,     \* history: sockets that were active when a later socket of their user became active
    kicks,          \* history: the handoff of attempt `by` disconnected `sock`; maps: a map changed
    \* ---- Distribution Bus adapter of one process: OptimizedRedisAdapter.js
    subscribedRooms,        \* this.subscribedRooms
    socketRooms,            \* the Set objects held for the sockets: [Sockets -> SUBSET Rooms]
    socketKeys,             \* the keys of the Map this.socketRooms
    roomSubscriptionCache,  \* rooms r with this.roomSubscriptionCache.get(r) true
    adapterState,           \* per socket: "new", "init", "ready", "gone"
    busCalls,               \* subClient.subscribe / unsubscribe calls in flight
    \* ---- history reads: ChatService.loadMessages
    loadCalls,      \* loadMessages runs suspended on the Message Store query
    loadResult,     \* what the last loadMessages call returned, with its arguments
    \* ---- AI Streaming Session Manager (per process): chat.js
    streamingSessions,  \* streamingSessions: [AiIds -> session record or NoSess]
    gens,               \* handleAIResponse runs suspended on aiService.generateResponse
    aiEvents,           \* history: the AI events emitted to rooms, set of [ev, id, room, content]
    \* ---- history requests with retry (per process): chat.js
    messageLoadRetries, \* messageLoadRetries: [RetryKeys -> count, or NoEntry]
    fetches,            \* fetchPreviousMessages handlers suspended at an await
    fetchDone,          \* history: the requests that ended, with their load attempts
    \* ---- reactions: chatService.js, Message.js
    reactions,          \* Message.reactions in the database, per message: the users of the emoji
    idCache,            \* key chat:message:id:<id>: the cached copy's reactions, or NoCopy
    reactCalls,         \* messageReaction handlers suspended at an await
    reactionEvents      \* history: the messageReactionUpdate events emitted

batchVars == <<now, msgs, messageBuffer, flights, store, cacheIndex, cachePayload,
               calls, jobs, queueIndex, accepted, requeued>>
sockVars == <<sockState, sockUser, sockSession, sockRooms, received, broadcasts,
              participants>>
sessVars == <<sessionStore, sessCalls, nextSid, latest, verdicts>>
batchVars_noCalls == <<now, msgs, messageBuffer, flights, store, cacheIndex, cachePayload,
                       jobs, queueIndex, accepted, requeued>>
connVars == <<connectedUsers, userRooms, sockPrev, graceTimers, roomCalls, authOk,
              superseded, kicks>>
busVars == <<subscribedRooms, socketRooms, socketKeys, roomSubscriptionCache, adapterState,
             busCalls>>
loadVars == <<loadCalls, loadResult>>
aiVars == <<streamingSessions, gens, aiEvents>>
retryVars == <<messageLoadRetries, fetches, fetchDone>>
reactVars == <<reactions, idCache, reactCalls, reactionEvents>>
extVars == <<retryVars, reactVars>>
sideVars == <<sessVars, connVars, busVars, loadVars, aiVars, extVars, extVars>>
vars == <<batchVars, sockVars, sideVars>>

Clock == 0..MaxClock
MsgIds == 1..MaxMsgs

\* ----------------------------------------------------------------- helpers
Range(q) == {q[i] : i \in 1..Len(q)}

RECURSIVE SeqOfSet(_)
SeqOfSet(S) == IF S = {} THEN <<>>
               ELSE LET x == CHOOSE y \in S : \A z \in S : y <= z
                    IN <<x>> \o SeqOfSet(S \ {x})

\* The sub-sequence of q at the positions in I, in q's order.
Pick(q, I) == [k \in 1..Cardinality(I) |-> q[SeqOfSet(I)[k]]]

IsPrefix(p, q) == Len(p) <= Len(q) /\ \A i \in 1..Len(p) : p[i] = q[i]

\* Number of store records of message m inserted by `via`.
Copies(m, via) == Cardinality({i \in 1..Len(store) : store[i].msg = m /\ store[i].via = via})

InStore(m) == \E i \in 1..Len(store) : store[i].msg = m

InFlight(m) == \E f \in flights : m \in Range(f.batch)

\* Sockets that io.to(room) reaches: every connected socket that joined the room,
\* on any process (the socket.io Redis adapter relays the packet).
RoomSockets(r) == {s \in Sockets : sockState[s] = "active" /\ r \in sockRooms[s]}

\* io.to(room).emit(ev, payload)
Deliver(r, ev, payload) ==
    [s \in Sockets |-> IF s \in RoomSockets(r) THEN received[s] \cup {<<ev, payload>>}
                       ELSE received[s]]

\* socket.emit(ev, payload): dropped unless the socket is connected.
EmitTo(s, ev, payload) ==
    [received EXCEPT ![s] = IF sockState[s] = "active" THEN @ \cup {<<ev, payload>>} ELSE @]

\* RedisManager.validateSession's verdict on the stored record.
SessionMatches(u, sid) == sessionStore[u] # NoSession /\ sessionStore[u] = sid

\* this.BATCH_SIZE = redisManager.BATCH_SIZE: the RedisManager that is exported
\* defines no BATCH_SIZE, so the threshold is undefined and `length >= undefined`
\* is false for every length.
BatchSizeReached(len) == FALSE


\* ------------------------------------------------- ChatService: the clock
\* Time passes between two event-loop steps.
Tick ==
    /\ now < MaxClock
    /\ now' = now + 1
    /\ UNCHANGED <<msgs, messageBuffer, flights, store, cacheIndex, cachePayload,
                   calls, jobs, queueIndex, accepted, requeued, sockVars, sideVars>>

\* A new message object; its id is its position in msgs.
NewMsg(r, type, origin, sender) ==
    [room |-> r, ts |-> now, type |-> type, origin |-> origin, sender |-> sender]

\* --------------------------------- socket.on('chatMessage') / handleMessage
\* chat.js 266-292 and chatService.js 96-113: the checks of the handler, then
\* handleMessage builds the message (timestamp: Date.now()) and suspends on the
\* user-cache lookup and the enrichment.
ChatMessageBegin(s, r) ==
    /\ sockState[s] = "active"
    /\ sockUser[s] \in participants[r]
    /\ SessionMatches(sockUser[s], sockSession[s])
    /\ Len(msgs) < MaxMsgs
    /\ msgs' = Append(msgs, NewMsg(r, "text", "chat", sockUser[s]))
    /\ calls' = calls \cup {[msg |-> Len(msgs) + 1, pc |-> "cache", sock |-> s]}
    /\ UNCHANGED <<now, messageBuffer, flights, store, cacheIndex, cachePayload,
                   jobs, queueIndex, accepted, requeued, sockVars, sideVars>>

\* chatService.js 115-127: the pipeline (zadd, set, expire) is applied to the cache.
HandleMessageCacheWrite(c) ==
    /\ c.pc = "cache"
    /\ LET m == msgs[c.msg]
       IN /\ cacheIndex' = cacheIndex \cup {<<m.room, m.ts>>}
          /\ cachePayload' = [cachePayload EXCEPT ![<<m.room, m.ts>>] = c.msg]
    /\ calls' = (calls \ {c}) \cup {[c EXCEPT !.pc = "push"]}
    /\ UNCHANGED <<now, msgs, messageBuffer, flights, store, jobs, queueIndex,
                   accepted, requeued, sockVars, sideVars>>

\* chatService.js 127, 147-150 and chat.js 310-316: pipeline.exec() rejects;
\* handleMessage rethrows and the handler reports the error to the sender.
HandleMessageCacheFail(c) ==
    /\ c.pc = "cache"
    /\ calls' = calls \ {c}
    /\ received' = EmitTo(c.sock, "error", c.msg)
    /\ UNCHANGED <<batchVars_noCalls, sockState, sockUser, sockSession, sockRooms,
                   broadcasts, participants, sideVars>>

\* chatService.js 129-138: after the pipeline resolved the message is pushed to
\* the buffer; the size check never starts a flush (BatchSizeReached); the
\* job is handed to the queue and the call suspends on messageQueue.add.
HandleMessagePush(c) ==
    /\ c.pc = "push"
    /\ ~BatchSizeReached(Len(messageBuffer) + 1)
    /\ messageBuffer' = Append(messageBuffer, c.msg)
    /\ accepted' = accepted \cup {c.msg}
    /\ calls' = (calls \ {c}) \cup {[c EXCEPT !.pc = "queue"]}
    /\ UNCHANGED <<now, msgs, flights, store, cacheIndex, cachePayload, jobs,
                   queueIndex, requeued, sockVars, sideVars>>

\* chatService.js 134-145 and chat.js 292-298: the job is in the queue,
\* handleMessage returns and the handler acknowledges to the sender only.
\* No event is emitted to the room.
MessageQueued(c) ==
    /\ c.pc = "queue"
    /\ jobs' = jobs \cup {c.msg}
    /\ calls' = calls \ {c}
    /\ received' = EmitTo(c.sock, "messageSent", c.msg)
    /\ UNCHANGED <<now, msgs, messageBuffer, flights, store, cacheIndex, cachePayload,
                   queueIndex, accepted, requeued, sockState, sockUser, sockSession,
                   sockRooms, broadcasts, participants, sessVars, connVars, busVars,
                   loadVars, extVars>>

\* chat.js 300-301: the content mentions no AI.
HandleMessageQueued(c) == MessageQueued(c) /\ UNCHANGED aiVars

\* chatService.js 134-150: messageQueue.add rejects after the buffer push.
HandleMessageQueueFail(c) ==
    /\ c.pc = "queue"
    /\ calls' = calls \ {c}
    /\ received' = EmitTo(c.sock, "error", c.msg)
    /\ UNCHANGED <<batchVars_noCalls, sockState, sockUser, sockSession, sockRooms,
                   broadcasts, participants, sideVars>>

\* queue.js 50-123: the worker inserts the job's message into the Message Store
\* (insertMany) and adds it to the zset messages:<room>.
QueueWorker(m) ==
    /\ m \in jobs
    /\ Len(store) < MaxStore
    /\ jobs' = jobs \ {m}
    /\ store' = Append(store, [msg |-> m, via |-> "queue"])
    /\ queueIndex' = queueIndex \cup {m}
    /\ UNCHANGED <<now, msgs, messageBuffer, flights, cacheIndex, cachePayload,
                   calls, accepted, requeued, sockVars, sideVars>>


\* ----------------------------------------------------- handleBulkMessages
\* chatService.js 157-175 with a one-message array: the message is appended to
\* the buffer; the size check never starts a flush, so the call returns in the
\* same event-loop step.
BulkPush(m) ==
    /\ ~BatchSizeReached(Len(messageBuffer) + 1)
    /\ messageBuffer' = Append(messageBuffer, m)
    /\ accepted' = accepted \cup {m}

\* A system message submitted by a room handler (chat.js 201-207, 331-337,
\* 425-431): handleBulkMessages([msg]).
SubmitSystemMessage(r, cap) ==
    /\ Len(msgs) < cap
    /\ msgs' = Append(msgs, NewMsg(r, "system", "bulk", NoUser))
    /\ BulkPush(Len(msgs) + 1)
    /\ UNCHANGED <<now, flights, store, cacheIndex, cachePayload, calls, jobs,
                   queueIndex, requeued, sockVars, sideVars>>

HandleBulkMessages(r) == SubmitSystemMessage(r, MaxMsgs)

\* chat.js 541-567, handleAIResponse.onComplete: the finished AI message is handed
\* to handleBulkMessages and, when that returns, aiMessageComplete is emitted to
\* the room.
AIComplete(r) ==
    /\ Len(msgs) < MaxMsgs
    /\ msgs' = Append(msgs, NewMsg(r, "ai", "bulk", NoUser))
    /\ BulkPush(Len(msgs) + 1)
    /\ received' = Deliver(r, "aiMessageComplete", Len(msgs) + 1)
    /\ broadcasts' = broadcasts \cup
           {[ev |-> "aiMessageComplete", room |-> r, msg |-> Len(msgs) + 1,
             durable |-> InStore(Len(msgs) + 1)]}
    /\ UNCHANGED <<now, flights, store, cacheIndex, cachePayload, calls, jobs,
                   queueIndex, requeued, sockState, sockUser, sockSession, sockRooms,
                   participants, sideVars>>

\* server.js (src/unnamed/part_007) 132-146, socket.on("sendMessage"): the message
\* object is built and emitted to the room; nothing is submitted or stored.
SendMessage(s, r) ==
    /\ sockState[s] = "active"
    /\ Len(msgs) < MaxMsgs
    /\ msgs' = Append(msgs, NewMsg(r, "text", "send", sockUser[s]))
    /\ received' = Deliver(r, "message", Len(msgs) + 1)
    /\ broadcasts' = broadcasts \cup
           {[ev |-> "message", room |-> r, msg |-> Len(msgs) + 1,
             durable |-> InStore(Len(msgs) + 1)]}
    /\ UNCHANGED <<now, messageBuffer, flights, store, cacheIndex, cachePayload, calls,
                   jobs, queueIndex, accepted, requeued, sockState, sockUser, sockSession,
                   sockRooms, participants, sideVars>>

\* ----------------------------------------------------- flushMessageBuffer
\* A flush that copies the buffer for its batch without emptying the buffer.
FlushStartKeepsBuffer ==
    /\ messageBuffer # <<>>
    /\ Cardinality(flights) < MaxFlights
    /\ flights' = flights \cup {[batch |-> messageBuffer, pc |-> "bulk"]}
    /\ UNCHANGED <<now, msgs, messageBuffer, store, cacheIndex, cachePayload, calls, jobs,
                   queueIndex, accepted, requeued, sockVars, sideVars>>

\* chatService.js 16, 385-401: a tick of the flush timer with a non-empty
\* buffer: the buffer is swapped out and the run suspends on Message.bulkWrite.
\* (With an empty buffer the run returns at once and changes nothing.)
FlushStart ==
    /\ messageBuffer # <<>>
    /\ Cardinality(flights) < MaxFlights
    /\ flights' = flights \cup {[batch |-> messageBuffer, pc |-> "bulk"]}
    /\ messageBuffer' = <<>>
    /\ UNCHANGED <<now, msgs, store, cacheIndex, cachePayload, calls, jobs, queueIndex,
                   accepted, requeued, sockVars, sideVars>>

StoreInsert(batch) == store \o [i \in 1..Len(batch) |-> [msg |-> batch[i], via |-> "flush"]]

\* chatService.js 397-426: bulkWrite committed the whole batch; the cache pipeline
\* is built and the run suspends on pipeline.exec.
FlushBulkOk(f) ==
    /\ f.pc = "bulk"
    /\ Len(store) + Len(f.batch) <= MaxStore
    /\ store' = StoreInsert(f.batch)
    /\ flights' = (flights \ {f}) \cup {[f EXCEPT !.pc = "cache"]}
    /\ UNCHANGED <<now, msgs, messageBuffer, cacheIndex, cachePayload, calls, jobs,
                   queueIndex, accepted, requeued, sockVars, sideVars>>

\* A catch block that only logs: the failed batch is not pushed back.
RequeueDropped(batch) == messageBuffer

\* chatService.js 427-430: the catch block: the batch is appended to the buffer.
Requeue(batch) == messageBuffer \o batch

\* chatService.js 397-401, 427-430: bulkWrite throws.  The write is unordered
\* (ordered: false), so the operations at the positions I were applied before
\* the error surfaced.
FlushBulkFail(f, I) ==
    /\ f.pc = "bulk"
    /\ I \subseteq 1..Len(f.batch)
    /\ Len(store) + Cardinality(I) <= MaxStore
    /\ store' = StoreInsert(Pick(f.batch, I))
    /\ messageBuffer' = Requeue(f.batch)
    /\ requeued' = requeued \cup Range(f.batch)
    /\ flights' = flights \ {f}
    /\ UNCHANGED <<now, msgs, cacheIndex, cachePayload, calls, jobs, queueIndex,
                   accepted, sockVars, sideVars>>

\* The cache after the mirror of `batch` (chatService.js 407-424), applied in order.
RECURSIVE MirrorPayload(_, _)
MirrorPayload(pl, batch) ==
    IF batch = <<>> THEN pl
    ELSE LET m == msgs[Head(batch)]
         IN MirrorPayload([pl EXCEPT ![<<m.room, m.ts>>] = Head(batch)], Tail(batch))

MirrorIndex(batch) == cacheIndex \cup {<<msgs[m].room, msgs[m].ts>> : m \in Range(batch)}

\* chatService.js 426: the cache pipeline was applied; the flush returns.
FlushCacheOk(f) ==
    /\ f.pc = "cache"
    /\ cacheIndex' = MirrorIndex(f.batch)
    /\ cachePayload' = MirrorPayload(cachePayload, f.batch)
    /\ flights' = flights \ {f}
    /\ UNCHANGED <<now, msgs, messageBuffer, store, calls, jobs, queueIndex, accepted,
                   requeued, sockVars, sideVars>>

\* chatService.js 426-430: pipeline.exec() rejects after the bulk write
\* committed; the same catch block requeues the batch.
FlushCacheFail(f) ==
    /\ f.pc = "cache"
    /\ messageBuffer' = Requeue(f.batch)
    /\ requeued' = requeued \cup Range(f.batch)
    /\ flights' = flights \ {f}
    /\ UNCHANGED <<now, msgs, store, cacheIndex, cachePayload, calls, jobs, queueIndex,
                   accepted, sockVars, sideVars>>

\* ------------------------------------------------------------ Batch Writer
\* State after construction of ChatService (chatService.js 7-17), with the
\* scenario's three participants of R1 connected on two processes.
BatchInit ==
    /\ now = 0
    /\ msgs = <<>>
    /\ messageBuffer = <<>>
    /\ flights = {}
    /\ store = <<>>
    /\ cacheIndex = {}
    /\ cachePayload = [k \in Rooms \X Clock |-> 0]
    /\ calls = {}
    /\ jobs = {}
    /\ queueIndex = {}
    /\ accepted = {}
    /\ requeued = {}

JoinedInit ==
    /\ sockState = [s \in Sockets |-> "active"]
    /\ sockUser = [s \in Sockets |-> CHOOSE u \in Users : u = <<"u1", "u2", "u3">>[s]]
    /\ sockSession = [s \in Sockets |-> s]
    /\ sockRooms = [s \in Sockets |-> {"R1"}]
    /\ received = [s \in Sockets |-> {}]
    /\ broadcasts = {}
    /\ participants = [r \in Rooms |-> IF r = "R1" THEN Users ELSE {}]

\* Every user is logged in: the Session Store holds one record per user.
LoggedInInit ==
    /\ sessionStore = [u \in Users |-> CHOOSE s \in Sockets : <<"u1", "u2", "u3">>[s] = u]
    /\ sessCalls = {}
    /\ nextSid = Cardinality(Users) + 1
    /\ latest = sessionStore
    /\ verdicts = {}

\* The Connection Coordinator's maps for the sockets of JoinedInit.
RegisteredInit ==
    /\ connectedUsers = [p \in Procs |-> [u \in Users |->
           IF \E s \in Sockets : SockProc(s) = p /\ sockUser[s] = u
           THEN CHOOSE s \in Sockets : SockProc(s) = p /\ sockUser[s] = u ELSE 0]]
    /\ userRooms = [p \in Procs |-> [u \in Users |->
           IF \E s \in Sockets : SockProc(s) = p /\ sockUser[s] = u THEN "R1" ELSE NoRoom]]
    /\ sockPrev = [s \in Sockets |-> 0]
    /\ graceTimers = {}
    /\ roomCalls = {}
    /\ authOk = [s \in Sockets |-> TRUE]
    /\ superseded = {}
    /\ kicks = {}

\* ------------------------------------------- streamingSessions (chat.js 12)
\* chat.js 485, 498: the AI kinds and the synthetic id `${aiName}-${Date.now()}`.
AiKinds == {"wayneAI", "consultingAI"}
AiIds == AiKinds \X Clock

\* streamingSessions.get(id) is undefined.
NoSess == [room |-> NoRoom]

\* chat.js 502-510: the session record handleAIResponse stores.  It has no
\* userId field, so session.userId is undefined for every session.
NewSession(room, kind) == [room |-> room, aiType |-> kind, content |-> <<>>]
SessionUserId(session) == NoUser

\* chat.js 418-422: the disconnect handler deletes the sessions whose userId is
\* the socket's user.
DisconnectCleanup(u) ==
    [id \in AiIds |-> IF streamingSessions[id] # NoSess /\ SessionUserId(streamingSessions[id]) = u
                      THEN NoSess ELSE streamingSessions[id]]

\* chat.js 345-349: leaveRoom deletes the sessions of the room whose userId is
\* the socket's user.
LeaveCleanup(r, u) ==
    [id \in AiIds |-> IF /\ streamingSessions[id] # NoSess
                         /\ streamingSessions[id].room = r
                         /\ SessionUserId(streamingSessions[id]) = u
                      THEN NoSess ELSE streamingSessions[id]]

\* chat.js 12: no session exists and no generation is running.
AiInit ==
    /\ streamingSessions = [id \in AiIds |-> NoSess]
    /\ gens = {}
    /\ aiEvents = {}

\* chat.js 14: messageLoadRetries.get(key) of a key that is not in the map.
NoEntry == 0 - 1
\* The keys `${roomId}:${socket.user.id}` of messageLoadRetries.
RetryKeys == Rooms \X Users
\* redis get of a key that is not set (a copy is a set of users).
NoCopy == {"none"}

\* chat.js 14 and an empty id cache: no request is running, no message has a
\* reaction or a cached copy.
ExtInit ==
    /\ messageLoadRetries = [k \in RetryKeys |-> NoEntry]
    /\ fetches = {}
    /\ fetchDone = {}
    /\ reactions = [m \in MsgIds |-> {}]
    /\ idCache = [m \in MsgIds |-> NoCopy]
    /\ reactCalls = {}
    /\ reactionEvents = {}

\* chatService.js 265: no loadMessages call has returned.
NoLoad == [path |-> "none"]

\* No history read has been made.
LoadInit ==
    /\ loadCalls = {}
    /\ loadResult = NoLoad

\* OptimizedRedisAdapter.js 4-11, the constructor: nothing is subscribed and no
\* socket is tracked.
BusInit ==
    /\ subscribedRooms = {}
    /\ socketRooms = [s \in Sockets |-> {}]
    /\ socketKeys = {}
    /\ roomSubscriptionCache = {}
    /\ adapterState = [s \in Sockets |-> "new"]
    /\ busCalls = {}

Init == BatchInit /\ JoinedInit /\ LoggedInInit /\ RegisteredInit /\ BusInit /\ LoadInit /\ AiInit /\ ExtInit

\* The rooms that system, AI and sendMessage traffic is drawn from.
BusyRooms == {"R1"}

Next ==
    \/ Tick
    \/ \E s \in Sockets, r \in Rooms : ChatMessageBegin(s, r)
    \/ \E c \in calls : HandleMessageCacheWrite(c)
    \/ \E c \in calls : HandleMessageCacheFail(c)
    \/ \E c \in calls : HandleMessagePush(c)
    \/ \E c \in calls : HandleMessageQueued(c)
    \/ \E c \in calls : HandleMessageQueueFail(c)
    \/ \E m \in jobs : QueueWorker(m)
    \/ \E r \in BusyRooms : HandleBulkMessages(r)
    \/ \E r \in BusyRooms : AIComplete(r)
    \/ \E s \in Sockets, r \in BusyRooms : SendMessage(s, r)
    \/ FlushStart
    \/ \E f \in flights : FlushBulkOk(f)
    \/ \E f \in flights : \E I \in SUBSET (1..Len(f.batch)) : FlushBulkFail(f, I)
    \/ \E f \in flights : FlushCacheOk(f)
    \/ \E f \in flights : FlushCacheFail(f)

Spec == Init /\ [][Next]_vars


\* ------------------------------------------------------- claims C1 .. C5
\* A message the Batch Writer has finished with: accepted, and neither waiting in
\* the buffer nor part of a flush that has not returned.
Settled(m) == m \in accepted /\ m \notin Range(messageBuffer) /\ ~InFlight(m)

\* C1: every message present in the Message Cache (an entry of a room's recency
\* index, or a payload key) is already in the durable Message Store.
C1_CacheImpliesDurable ==
    \A k \in Rooms \X Clock :
        /\ cachePayload[k] # 0 => InStore(cachePayload[k])
        /\ k \in cacheIndex =>
               \E i \in 1..Len(store) :
                   msgs[store[i].msg].room = k[1] /\ msgs[store[i].msg].ts = k[2]

\* C2: every message carried by a `message` or `aiMessageComplete` broadcast was
\* in the durable Message Store at the moment the broadcast was emitted.
C2_BroadcastOnlyDurable ==
    \A b \in broadcasts : b.ev \in {"message", "aiMessageComplete"} => b.durable

\* C3: once a batch whose flush failed has been flushed again with success, the
\* Message Store holds each of its messages exactly once (flush-inserted records).
C3_ExactlyOnceAfterRetry ==
    \A m \in requeued : Settled(m) => Copies(m, "flush") = 1

\* C4: when a flush whose bulk write failed returns, its batch is back in
\* messageBuffer in its original order at the front of the buffer, ahead of the
\* messages submitted while the flush was in flight.
C4_FailedBatchBackAtFront ==
    [][\A f \in flights :
          (f.pc = "bulk" /\ f \notin flights' /\ [f EXCEPT !.pc = "cache"] \notin flights')
              => IsPrefix(f.batch, messageBuffer')]_vars

\* C5: once the flush that persists a chat message has returned (one flush
\* interval after the submit), every socket joined to the message's room, on
\* every process, has received a `message` event carrying it.
C5_ChatMessageReachesRoom ==
    \A m \in 1..Len(msgs) :
        (msgs[m].origin = "chat" /\ Settled(m) /\ Copies(m, "flush") >= 1)
            => \A s \in RoomSockets(msgs[m].room) : <<"message", m>> \in received[s]


\* ------------------------------------------------------------ Session Store
\* redis.js 301-304: createSession(u) starts and suspends on getCache.
CreateSessionBegin(u) ==
    /\ Cardinality(sessCalls) < MaxSessCalls
    /\ nextSid + Cardinality({c \in sessCalls : c.op = "create" /\ c.pc \in {"get", "del", "set"}})
           <= MaxSessions
    /\ sessCalls' = sessCalls \cup {[op |-> "create", user |-> u, sid |-> NoSession,
                                     pc |-> "get", read |-> NoSession, stale |-> FALSE]}
    /\ UNCHANGED <<batchVars, sockVars, connVars, busVars, loadVars, aiVars, extVars, sessionStore, nextSid, latest, verdicts>>

\* redis.js 304-308, 357-372: getCache returned; an existing record leads to
\* delCache, no record leads straight to setCache.
CreateSessionGet(c) ==
    /\ c.op = "create" /\ c.pc = "get"
    /\ sessCalls' = (sessCalls \ {c}) \cup
           {[c EXCEPT !.read = sessionStore[c.user],
                      !.pc = IF sessionStore[c.user] # NoSession THEN "del" ELSE "set"]}
    /\ UNCHANGED <<batchVars, sockVars, connVars, busVars, loadVars, aiVars, extVars, sessionStore, nextSid, latest, verdicts>>

\* redis.js 385-395: delCache removed the key (TYPE, then DEL).
CreateSessionDel(c) ==
    /\ c.op = "create" /\ c.pc = "del"
    /\ sessionStore' = [sessionStore EXCEPT ![c.user] = NoSession]
    /\ sessCalls' = (sessCalls \ {c}) \cup {[c EXCEPT !.pc = "set"]}
    /\ UNCHANGED <<batchVars, sockVars, connVars, busVars, loadVars, aiVars, extVars, nextSid, latest, verdicts>>

\* redis.js 310-316, 353-355: a fresh session id is generated and setCache
\* stores the new record.
CreateSessionSet(c) ==
    /\ c.op = "create" /\ c.pc = "set"
    /\ sessionStore' = [sessionStore EXCEPT ![c.user] = nextSid]
    /\ nextSid' = nextSid + 1
    /\ sessCalls' = (sessCalls \ {c}) \cup {[c EXCEPT !.sid = nextSid, !.pc = "ret"]}
    /\ UNCHANGED <<batchVars, sockVars, connVars, busVars, loadVars, aiVars, extVars, latest, verdicts>>

\* redis.js 318-319: createSession returns the new session to its caller.
CreateSessionReturn(c) ==
    /\ c.op = "create" /\ c.pc = "ret"
    /\ latest' = [latest EXCEPT ![c.user] = IF c.sid > @ THEN c.sid ELSE @]
    /\ sessCalls' = sessCalls \ {c}
    /\ UNCHANGED <<batchVars, sockVars, connVars, busVars, loadVars, aiVars, extVars, sessionStore, nextSid, verdicts>>

\* redis.js 326-329: validateSession(u, sid) starts and suspends on getCache.
\* `stale` notes whether a createSession that already returned created a later id
\* (ids are numbered in the order they are generated).
ValidateSessionBegin(u, sid) ==
    /\ Cardinality(sessCalls) < MaxSessCalls
    /\ sessCalls' = sessCalls \cup
           {[op |-> "validate", user |-> u, sid |-> sid, pc |-> "get", read |-> NoSession,
             stale |-> (sid < latest[u])]}
    /\ UNCHANGED <<batchVars, sockVars, connVars, busVars, loadVars, aiVars, extVars, sessionStore, nextSid, latest, verdicts>>

Verdict(c, valid) == [user |-> c.user, sid |-> c.sid, stale |-> c.stale, valid |-> valid]

\* redis.js 329-342: getCache returned no record, or one with another session
\* id: the call returns invalid.
ValidateSessionReject(c) ==
    /\ c.op = "validate" /\ c.pc = "get"
    /\ sessionStore[c.user] = NoSession \/ sessionStore[c.user] # c.sid
    /\ verdicts' = verdicts \cup {Verdict(c, FALSE)}
    /\ sessCalls' = sessCalls \ {c}
    /\ UNCHANGED <<batchVars, sockVars, connVars, busVars, loadVars, aiVars, extVars, sessionStore, nextSid, latest>>

\* redis.js 329-344: getCache returned the record with the claimed id; the call
\* suspends on setCache, which will write the record it read.
ValidateSessionGet(c) ==
    /\ c.op = "validate" /\ c.pc = "get"
    /\ sessionStore[c.user] # NoSession /\ sessionStore[c.user] = c.sid
    /\ sessCalls' = (sessCalls \ {c}) \cup {[c EXCEPT !.read = sessionStore[c.user], !.pc = "set"]}
    /\ UNCHANGED <<batchVars, sockVars, connVars, busVars, loadVars, aiVars, extVars, sessionStore, nextSid, latest, verdicts>>

\* The record validateSession writes back (redis.js 344): the one it read.
RefreshedRecord(c) == c.read

\* redis.js 344-346: setCache stored the record again with a new TTL; the call
\* returns valid.
ValidateSessionRefresh(c) ==
    /\ c.op = "validate" /\ c.pc = "set"
    /\ sessionStore' = [sessionStore EXCEPT ![c.user] = RefreshedRecord(c)]
    /\ verdicts' = verdicts \cup {Verdict(c, TRUE)}
    /\ sessCalls' = sessCalls \ {c}
    /\ UNCHANGED <<batchVars, sockVars, connVars, busVars, loadVars, aiVars, extVars, nextSid, latest>>

\* The record's TTL (defaultTTL, redis.js 242) runs out.
SessionExpire(u) ==
    /\ sessionStore[u] # NoSession
    /\ sessionStore' = [sessionStore EXCEPT ![u] = NoSession]
    /\ UNCHANGED <<batchVars, sockVars, connVars, busVars, loadVars, aiVars, extVars, sessCalls, nextSid, latest, verdicts>>

\* State after construction of RedisManager: no session record.
SessionInit ==
    /\ sessionStore = [u \in Users |-> NoSession]
    /\ sessCalls = {}
    /\ nextSid = 1
    /\ latest = [u \in Users |-> NoSession]
    /\ verdicts = {}

SessUsers == {"u1"}

SessionNext ==
    \/ \E u \in SessUsers : CreateSessionBegin(u)
    \/ \E c \in sessCalls : CreateSessionGet(c)
    \/ \E c \in sessCalls : CreateSessionDel(c)
    \/ \E c \in sessCalls : CreateSessionSet(c)
    \/ \E c \in sessCalls : CreateSessionReturn(c)
    \/ \E u \in SessUsers, sid \in 1..MaxSessions : ValidateSessionBegin(u, sid)
    \/ \E c \in sessCalls : ValidateSessionReject(c)
    \/ \E c \in sessCalls : ValidateSessionGet(c)
    \/ \E c \in sessCalls : ValidateSessionRefresh(c)
    \/ \E u \in SessUsers : SessionExpire(u)

SessionSpecInit ==
    BatchInit /\ JoinedInit /\ RegisteredInit /\ BusInit /\ LoadInit /\ AiInit /\ ExtInit /\ SessionInit

SpecSession == SessionSpecInit /\ [][SessionNext]_vars

\* ------------------------------------------------------------- claim C8
\* C8: once createSession(u) has returned a new session id, every
\* validateSession(u, s) called afterwards with an earlier id s reports invalid.
C8_OldSessionInvalid ==
    \A v \in verdicts : v.stale => ~v.valid


\* ---------------------------------------------------- Connection Coordinator
IsActive(s) == s # 0 /\ sockState[s] = "active"

\* io.emit(ev, payload): every connected socket of every process.
DeliverAll(rcv, ev, payload) ==
    [s \in Sockets |-> IF sockState[s] = "active" THEN rcv[s] \cup {<<ev, payload>>} ELSE rcv[s]]

\* io.to(room).emit(ev, payload) on top of the deliveries rcv, to the sockets in `members`.
DeliverIn(rcv, members, ev, payload) ==
    [s \in Sockets |-> IF s \in members THEN rcv[s] \cup {<<ev, payload>>} ELSE rcv[s]]

\* chat.js 84-89: no token or session id, or jwt.verify fails: the middleware
\* rejects the handshake before anything else happens.
ConnectBadToken(s) ==
    /\ sockState[s] = "idle"
    /\ sockState' = [sockState EXCEPT ![s] = "rejected"]
    /\ UNCHANGED <<batchVars, sessVars, busVars, loadVars, aiVars, extVars, connVars, sockUser, sockSession, sockRooms,
                   received, broadcasts, participants>>

\* chat.js 27-34, 84-97: the token verifies for user u.  A socket registered for
\* u on this process is sent duplicate_login and the middleware waits for the
\* grace timer; otherwise it goes on to validate the session.
ConnectBegin(s, u, sid) ==
    /\ sockState[s] = "idle"
    /\ sockUser' = [sockUser EXCEPT ![s] = u]
    /\ sockSession' = [sockSession EXCEPT ![s] = sid]
    /\ LET existing == connectedUsers[SockProc(s)][u]
       IN IF IsActive(existing)
          THEN /\ received' = EmitTo(existing, "duplicate_login", 0)
               /\ sockPrev' = [sockPrev EXCEPT ![s] = existing]
               /\ sockState' = [sockState EXCEPT ![s] = "dupwait"]
          ELSE /\ sockState' = [sockState EXCEPT ![s] = "validate"]
               /\ UNCHANGED <<received, sockPrev>>
    /\ UNCHANGED <<batchVars, sessVars, busVars, loadVars, aiVars, extVars, connectedUsers, userRooms, graceTimers, roomCalls,
                   authOk, superseded, kicks, sockRooms, broadcasts, participants>>

\* chat.js 424: the disconnect handler submits the leave message and pulls the
\* user from the room unless the reason is one of these.
\* socket.disconnect(true) gives the reason "server namespace disconnect".
QuietReason(reason) == reason \in {"client namespace disconnect", "duplicate_login"}

\* chat.js 407-431: socket e closes (socket.io first takes it out of its rooms)
\* and the first segment of its disconnect handler runs: the maps are cleaned, the
\* leave message is submitted and the handler suspends on Room.findByIdAndUpdate.
\* The caller sets sockState, received and its own variables.
CloseSocket(e, reason) ==
    LET p == SockProc(e)
        u == sockUser[e]
        roomId == userRooms[p][u]
        noisy == roomId # NoRoom /\ ~QuietReason(reason)
    IN /\ sockRooms' = [sockRooms EXCEPT ![e] = {}]
       /\ connectedUsers' = IF connectedUsers[p][u] = e
                            THEN [connectedUsers EXCEPT ![p][u] = 0] ELSE connectedUsers
       /\ userRooms' = [userRooms EXCEPT ![p][u] = NoRoom]
       /\ streamingSessions' = DisconnectCleanup(u)
       /\ IF noisy
          THEN /\ Len(msgs) < MaxSysMsgs
               /\ msgs' = Append(msgs, NewMsg(roomId, "system", "bulk", NoUser))
               /\ BulkPush(Len(msgs) + 1)
               /\ roomCalls' = roomCalls \cup
                      {[op |-> "disconnect", sock |-> e, room |-> roomId, pc |-> "pull"]}
          ELSE UNCHANGED <<msgs, messageBuffer, accepted, roomCalls>>
       /\ UNCHANGED <<now, flights, store, cacheIndex, cachePayload, calls, jobs,
                      queueIndex, requeued>>

\* chat.js 35-48, 95-99: the middleware's grace timer fires: the existing socket
\* is sent session_ended and disconnected; the handshake goes on to validation.
DupTimeout(s) ==
    /\ sockState[s] = "dupwait"
    /\ LET e == sockPrev[s]
       IN IF IsActive(e)
          THEN /\ received' = EmitTo(e, "session_ended", 0)
               /\ sockState' = [sockState EXCEPT ![e] = "closed", ![s] = "validate"]
               /\ CloseSocket(e, "server namespace disconnect")
               /\ kicks' = kicks \cup
                      {[by |-> s, sock |-> e,
                        maps |-> connectedUsers' # connectedUsers \/ userRooms' # userRooms]}
          ELSE /\ sockState' = [sockState EXCEPT ![s] = "validate"]
               /\ UNCHANGED <<received, kicks, batchVars, sockRooms, connectedUsers,
                              userRooms, roomCalls, streamingSessions>>
    /\ sockPrev' = [sockPrev EXCEPT ![s] = 0]
    /\ UNCHANGED <<sessVars, busVars, loadVars, gens, aiEvents, extVars, graceTimers, authOk, superseded, sockUser, sockSession,
                   broadcasts, participants>>

\* chat.js 99-103: validateSession (redis.js 326-351) on the claimed session id.
ValidationPasses(s) == SessionMatches(sockUser[s], sockSession[s])

ValidateAttempt(s) ==
    /\ sockState[s] = "validate"
    /\ IF ValidationPasses(s)
       THEN /\ sockState' = [sockState EXCEPT ![s] = "admit"]
            /\ authOk' = [authOk EXCEPT ![s] = TRUE]
       ELSE /\ sockState' = [sockState EXCEPT ![s] = "rejected"]
            /\ UNCHANGED authOk
    /\ UNCHANGED <<batchVars, sessVars, busVars, loadVars, aiVars, extVars, connectedUsers, userRooms, sockPrev, graceTimers,
                   roomCalls, superseded, kicks, sockUser, sockSession, sockRooms,
                   received, broadcasts, participants>>

\* chat.js 105-117, 127-156: the user is loaded, next() is called and the
\* connection handler runs: a socket still registered for the user on this
\* process is sent duplicate_login and gets a grace timer; the new socket is
\* registered at once.
Connection(s) ==
    /\ sockState[s] = "admit"
    /\ LET p == SockProc(s)
           u == sockUser[s]
           previous == connectedUsers[p][u]
       IN /\ IF previous # s /\ IsActive(previous)
             THEN /\ received' = EmitTo(previous, "duplicate_login", 0)
                  /\ graceTimers' = graceTimers \cup {previous}
             ELSE UNCHANGED <<received, graceTimers>>
          /\ connectedUsers' = [connectedUsers EXCEPT ![p][u] = s]
          /\ superseded' = superseded \cup
                 {e \in Sockets : /\ e # s /\ IsActive(e) /\ sockUser[e] = u
                                  /\ connectedUsers[SockProc(e)][u] = e}
    /\ sockState' = [sockState EXCEPT ![s] = "active"]
    /\ UNCHANGED <<batchVars, sessVars, busVars, loadVars, aiVars, extVars, userRooms, sockPrev, roomCalls, authOk, kicks,
                   sockUser, sockSession, sockRooms, broadcasts, participants>>

\* chat.js 146-152: the connection handler's grace timer fires.
GraceTimeout(e) ==
    /\ e \in graceTimers
    /\ graceTimers' = graceTimers \ {e}
    /\ IF IsActive(e)
       THEN /\ received' = EmitTo(e, "session_ended", 0)
            /\ sockState' = [sockState EXCEPT ![e] = "closed"]
            /\ CloseSocket(e, "server namespace disconnect")
       ELSE UNCHANGED <<received, sockState, batchVars, sockRooms, connectedUsers,
                        userRooms, roomCalls, streamingSessions>>
    /\ UNCHANGED <<sessVars, busVars, loadVars, gens, aiEvents, extVars, sockPrev, authOk, superseded, kicks, sockUser, sockSession,
                   broadcasts, participants>>

\* The connection is lost ("transport close") or the client disconnects
\* ("client namespace disconnect"): chat.js 407-431.
Disconnect(s, reason) ==
    /\ sockState[s] = "active"
    /\ sockState' = [sockState EXCEPT ![s] = "closed"]
    /\ CloseSocket(s, reason)
    /\ UNCHANGED <<sessVars, busVars, loadVars, gens, aiEvents, extVars, sockPrev, graceTimers, authOk, superseded, kicks, sockUser,
                   sockSession, received, broadcasts, participants>>

\* chat.js 433-446: the update of the disconnect handler was applied: the user is
\* pulled from the room's participants and the room is told.
DisconnectPulled(c) ==
    /\ c.op = "disconnect" /\ c.pc = "pull"
    /\ participants' = [participants EXCEPT ![c.room] = @ \ {sockUser[c.sock]}]
    /\ received' = DeliverAll(Deliver(c.room, "participantsUpdate", c.room),
                              "roomUpdated", c.room)
    /\ roomCalls' = roomCalls \ {c}
    /\ UNCHANGED <<batchVars, sessVars, busVars, loadVars, aiVars, extVars, connectedUsers, userRooms, sockPrev, graceTimers,
                   authOk, superseded, kicks, sockState, sockUser, sockSession, sockRooms,
                   broadcasts>>


\* ------------------------------------------------------- joinRoom / leaveRoom
\* chat.js 177-193: the first segment of joinRoom: the socket leaves the room the
\* user is recorded in (the participant set of that room is not touched) and the
\* handler suspends on Room.findByIdAndUpdate($addToSet).
JoinRoomBegin(s, r) ==
    /\ sockState[s] = "active"
    /\ Cardinality(roomCalls) < MaxRoomCalls
    /\ LET p == SockProc(s)
           u == sockUser[s]
           currentRoom == userRooms[p][u]
       IN IF currentRoom # NoRoom /\ currentRoom # r
          THEN /\ sockRooms' = [sockRooms EXCEPT ![s] = @ \ {currentRoom}]
               /\ userRooms' = [userRooms EXCEPT ![p][u] = NoRoom]
               /\ received' = DeliverIn(received, RoomSockets(currentRoom) \ {s},
                                        "participantsUpdate", currentRoom)
          ELSE UNCHANGED <<sockRooms, userRooms, received>>
    /\ roomCalls' = roomCalls \cup {[op |-> "joinRoom", sock |-> s, room |-> r, pc |-> "update"]}
    /\ UNCHANGED <<batchVars, sessVars, busVars, loadVars, aiVars, extVars, connectedUsers, sockPrev, graceTimers, authOk,
                   superseded, kicks, sockState, sockUser, sockSession, broadcasts,
                   participants>>

\* chat.js 189-209: the update was applied; the socket joins the room, the user
\* is recorded in it, the join message is submitted and the handler suspends on
\* loadMessages.
JoinRoomUpdated(c) ==
    /\ c.op = "joinRoom" /\ c.pc = "update"
    /\ Len(msgs) < MaxSysMsgs
    /\ participants' = [participants EXCEPT ![c.room] = @ \cup {sockUser[c.sock]}]
    /\ sockRooms' = [sockRooms EXCEPT ![c.sock] = @ \cup {c.room}]
    /\ userRooms' = [userRooms EXCEPT ![SockProc(c.sock)][sockUser[c.sock]] = c.room]
    /\ msgs' = Append(msgs, NewMsg(c.room, "system", "bulk", NoUser))
    /\ BulkPush(Len(msgs) + 1)
    /\ roomCalls' = (roomCalls \ {c}) \cup {[c EXCEPT !.pc = "load"]}
    /\ UNCHANGED <<now, flights, store, cacheIndex, cachePayload, calls, jobs, queueIndex,
                   requeued, sessVars, busVars, loadVars, aiVars, extVars, connectedUsers, sockPrev, graceTimers, authOk,
                   superseded, kicks, sockState, sockUser, sockSession, received,
                   broadcasts>>

\* chat.js 209-247: the history was loaded: the room, every client and the
\* joining socket are told.
JoinRoomLoaded(c) ==
    /\ c.op = "joinRoom" /\ c.pc = "load"
    /\ received' = [DeliverAll(Deliver(c.room, "participantsUpdate", c.room),
                               "roomUpdated", c.room)
                       EXCEPT ![c.sock] = IF sockState[c.sock] = "active"
                                          THEN @ \cup {<<"joinRoomSuccess", c.room>>} ELSE @]
    /\ roomCalls' = roomCalls \ {c}
    /\ UNCHANGED <<batchVars, sessVars, busVars, loadVars, aiVars, extVars, connectedUsers, userRooms, sockPrev, graceTimers,
                   authOk, superseded, kicks, sockState, sockUser, sockSession, sockRooms,
                   broadcasts, participants>>

\* chat.js 258-263: loadMessages threw: the joining socket gets joinRoomError.
JoinRoomLoadFail(c) ==
    /\ c.op = "joinRoom" /\ c.pc = "load"
    /\ received' = EmitTo(c.sock, "joinRoomError", c.room)
    /\ roomCalls' = roomCalls \ {c}
    /\ UNCHANGED <<batchVars, sessVars, busVars, loadVars, aiVars, extVars, connectedUsers, userRooms, sockPrev, graceTimers,
                   authOk, superseded, kicks, sockState, sockUser, sockSession, sockRooms,
                   broadcasts, participants>>

\* chat.js 319-325: leaveRoom for the room the user is recorded in suspends on
\* Room.findOne; for any other room it returns at once.
LeaveRoomBegin(s, r) ==
    /\ sockState[s] = "active"
    /\ Cardinality(roomCalls) < MaxRoomCalls
    /\ userRooms[SockProc(s)][sockUser[s]] = r
    /\ roomCalls' = roomCalls \cup {[op |-> "leaveRoom", sock |-> s, room |-> r, pc |-> "find"]}
    /\ UNCHANGED <<batchVars, sessVars, busVars, loadVars, aiVars, extVars, connectedUsers, userRooms, sockPrev, graceTimers,
                   authOk, superseded, kicks, sockVars>>

\* chat.js 325-337: the room was looked up: if the user is a participant the
\* socket leaves, the record is deleted, the leave message is submitted and the
\* handler suspends on Room.findByIdAndUpdate($pull); otherwise it returns.
LeaveRoomFound(c) ==
    /\ c.op = "leaveRoom" /\ c.pc = "find"
    /\ IF sockUser[c.sock] \in participants[c.room]
       THEN /\ Len(msgs) < MaxSysMsgs
            /\ sockRooms' = [sockRooms EXCEPT ![c.sock] = @ \ {c.room}]
            /\ userRooms' = [userRooms EXCEPT ![SockProc(c.sock)][sockUser[c.sock]] = NoRoom]
            /\ msgs' = Append(msgs, NewMsg(c.room, "system", "bulk", NoUser))
            /\ BulkPush(Len(msgs) + 1)
            /\ roomCalls' = (roomCalls \ {c}) \cup {[c EXCEPT !.pc = "pull"]}
       ELSE /\ roomCalls' = roomCalls \ {c}
            /\ UNCHANGED <<sockRooms, userRooms, msgs, messageBuffer, accepted>>
    /\ UNCHANGED <<now, flights, store, cacheIndex, cachePayload, calls, jobs, queueIndex,
                   requeued, sessVars, busVars, loadVars, aiVars, extVars, connectedUsers, sockPrev, graceTimers, authOk,
                   superseded, kicks, sockState, sockUser, sockSession, received,
                   broadcasts, participants>>

\* chat.js 339-359: the pull was applied: the user's sessions of the room are
\* deleted, the room and every client are told.
LeaveRoomPulled(c) ==
    /\ c.op = "leaveRoom" /\ c.pc = "pull"
    /\ participants' = [participants EXCEPT ![c.room] = @ \ {sockUser[c.sock]}]
    /\ streamingSessions' = LeaveCleanup(c.room, sockUser[c.sock])
    /\ received' = DeliverAll(Deliver(c.room, "participantsUpdate", c.room),
                              "roomUpdated", c.room)
    /\ roomCalls' = roomCalls \ {c}
    /\ UNCHANGED <<batchVars, sessVars, busVars, loadVars, gens, aiEvents, extVars, connectedUsers, userRooms, sockPrev, graceTimers,
                   authOk, superseded, kicks, sockState, sockUser, sockSession, sockRooms,
                   broadcasts>>

\* No socket is connected yet and no room has a participant.
ConnInit ==
    /\ sockState = [s \in Sockets |-> "idle"]
    /\ sockUser = [s \in Sockets |-> NoUser]
    /\ sockSession = [s \in Sockets |-> NoSession]
    /\ sockRooms = [s \in Sockets |-> {}]
    /\ received = [s \in Sockets |-> {}]
    /\ broadcasts = {}
    /\ participants = [r \in Rooms |-> {}]
    /\ connectedUsers = [p \in Procs |-> [u \in Users |-> 0]]
    /\ userRooms = [p \in Procs |-> [u \in Users |-> NoRoom]]
    /\ sockPrev = [s \in Sockets |-> 0]
    /\ graceTimers = {}
    /\ roomCalls = {}
    /\ authOk = [s \in Sockets |-> FALSE]
    /\ superseded = {}
    /\ kicks = {}

\* The users who connect, and the session ids a handshake may claim: the one the
\* Session Store holds for the user, or another user's.
ConnUsers == {"u1"}
ClaimedIds == {sessionStore[v] : v \in {"u1", "u2"}}
DisconnectReasons == {"transport close", "client namespace disconnect"}

ConnNext ==
    \/ \E s \in Sockets : ConnectBadToken(s)
    \/ \E s \in Sockets, u \in ConnUsers, sid \in ClaimedIds : ConnectBegin(s, u, sid)
    \/ \E s \in Sockets : DupTimeout(s)
    \/ \E s \in Sockets : ValidateAttempt(s)
    \/ \E s \in Sockets : Connection(s)
    \/ \E e \in graceTimers : GraceTimeout(e)
    \/ \E s \in Sockets, reason \in DisconnectReasons : Disconnect(s, reason)
    \/ \E c \in roomCalls : DisconnectPulled(c)
    \/ \E s \in Sockets, r \in Rooms : JoinRoomBegin(s, r)
    \/ \E c \in roomCalls : JoinRoomUpdated(c)
    \/ \E c \in roomCalls : JoinRoomLoaded(c)
    \/ \E c \in roomCalls : JoinRoomLoadFail(c)
    \/ \E s \in Sockets, r \in Rooms : LeaveRoomBegin(s, r)
    \/ \E c \in roomCalls : LeaveRoomFound(c)
    \/ \E c \in roomCalls : LeaveRoomPulled(c)

ConnSpecInit == BatchInit /\ LoggedInInit /\ BusInit /\ LoadInit /\ AiInit /\ ExtInit /\ ConnInit

SpecConn == ConnSpecInit /\ [][ConnNext]_vars

ActiveOf(u) == {s \in Sockets : sockState[s] = "active" /\ sockUser[s] = u}

\* C6: at every instant at most one connection per user id is Active, counted
\* over all server processes.
C6_AtMostOneActive == \A u \in Users : Cardinality(ActiveOf(u)) <= 1


\* C7: once a new connection of a user has authenticated while an earlier
\* connection of that user was registered, the earlier connection has received
\* the duplicate_login warning.
C7_EarlierConnectionWarned ==
    \A e \in superseded : <<"duplicate_login", 0>> \in received[e]

\* C9: a connection attempt that is rejected has left connectedUsers and
\* userRooms as they were.
C9_RejectedAttemptChangesNothing ==
    \A k \in kicks : sockState[k.by] = "rejected" => ~k.maps


\* ------------------------------------------------ Distribution Bus adapter
\* The sockets attached to the process whose adapter is modelled.
LocalSockets == {s \in Sockets : SockProc(s) = "p1"}

\* OptimizedRedisAdapter.js 217-225, shouldSubscribe; the same scan is inlined in
\* unsubscribeFromRoom (159-160) and checkRoomUnsubscription (197-203).
shouldSubscribe(room) == \E k \in socketKeys : room \in socketRooms[k]

adapterFrame == <<batchVars, sockVars, sessVars, connVars, loadVars, aiVars, extVars>>

\* OptimizedRedisAdapter.js 61-63, 97-104: handleConnection starts
\* initializeSocket, which records an empty room set and emits `init`.
handleConnection(s) ==
    /\ adapterState[s] = "new"
    /\ adapterState' = [adapterState EXCEPT ![s] = "init"]
    /\ socketRooms' = [socketRooms EXCEPT ![s] = {}]
    /\ socketKeys' = socketKeys \cup {s}
    /\ UNCHANGED <<adapterFrame, subscribedRooms, roomSubscriptionCache, busCalls>>

\* OptimizedRedisAdapter.js 65-75, 83-95: the client answered `ready`: the
\* disconnect listener is installed.
setupSocketListeners(s) ==
    /\ adapterState[s] = "init"
    /\ adapterState' = [adapterState EXCEPT ![s] = "ready"]
    /\ UNCHANGED <<adapterFrame, subscribedRooms, socketRooms, socketKeys,
                   roomSubscriptionCache, busCalls>>

\* OptimizedRedisAdapter.js 66-80: no `ready` within 5 s: the socket is
\* disconnected; no disconnect listener was installed, so nothing is cleaned up.
ConnectionTimeout(s) ==
    /\ adapterState[s] = "init"
    /\ adapterState' = [adapterState EXCEPT ![s] = "gone"]
    /\ UNCHANGED <<adapterFrame, subscribedRooms, socketRooms, socketKeys,
                   roomSubscriptionCache, busCalls>>

\* OptimizedRedisAdapter.js 106-131: handleRoomJoin for one room.  subscribeToRoom
\* adds the room to the socket's set first; it returns at once when the room is
\* cached or already subscribed, and otherwise suspends on subClient.subscribe.
\* With nothing to wait for handleRoomJoin stores the set again (a no-op).
handleRoomJoin(s, room) ==
    /\ adapterState[s] = "ready"
    /\ socketRooms' = [socketRooms EXCEPT ![s] = @ \cup {room}]
    /\ IF room \in roomSubscriptionCache \/ room \in subscribedRooms
       THEN /\ socketKeys' = socketKeys \cup {s}
            /\ UNCHANGED busCalls
       ELSE /\ Cardinality(busCalls) < MaxBusCalls
            /\ [op |-> "subscribe", sock |-> s, room |-> room] \notin busCalls
            /\ busCalls' = busCalls \cup {[op |-> "subscribe", sock |-> s, room |-> room]}
            /\ UNCHANGED socketKeys
    /\ UNCHANGED <<adapterFrame, subscribedRooms, roomSubscriptionCache, adapterState>>

\* OptimizedRedisAdapter.js 133-135, 115: the subscribe resolved: the room is
\* recorded as subscribed and cached, and handleRoomJoin stores the socket's set
\* under its id (again, if the socket was removed meanwhile).
SubscribeOk(c) ==
    /\ c.op = "subscribe"
    /\ subscribedRooms' = subscribedRooms \cup {c.room}
    /\ roomSubscriptionCache' = roomSubscriptionCache \cup {c.room}
    /\ socketKeys' = socketKeys \cup {c.sock}
    /\ busCalls' = busCalls \ {c}
    /\ UNCHANGED <<adapterFrame, socketRooms, adapterState>>

\* OptimizedRedisAdapter.js 126-141: the subscribe rejected or SUBSCRIPTION_TIMEOUT
\* passed: subscribeToRoom rethrows and handleRoomJoin rejects; the room stays in
\* the socket's set.
SubscribeFail(c) ==
    /\ c.op = "subscribe"
    /\ busCalls' = busCalls \ {c}
    /\ UNCHANGED <<adapterFrame, subscribedRooms, socketRooms, socketKeys,
                   roomSubscriptionCache, adapterState>>

\* OptimizedRedisAdapter.js 145-164: handleRoomLeave for one room of a tracked
\* socket: the room leaves the socket's set and, if no tracked set holds it and it
\* is subscribed, unsubscribeFromRoom suspends on subClient.unsubscribe.
handleRoomLeave(s, room) ==
    /\ s \in socketKeys
    /\ adapterState[s] = "ready"
    /\ socketRooms' = [socketRooms EXCEPT ![s] = @ \ {room}]
    /\ LET isRoomInUse == \E k \in socketKeys : room \in socketRooms'[k]
       IN IF ~isRoomInUse /\ room \in subscribedRooms
          THEN /\ Cardinality(busCalls) < MaxBusCalls
               /\ busCalls' = busCalls \cup {[op |-> "unsubscribe", sock |-> s, room |-> room]}
          ELSE UNCHANGED busCalls
    /\ UNCHANGED <<adapterFrame, subscribedRooms, socketKeys, roomSubscriptionCache,
                   adapterState>>

\* OptimizedRedisAdapter.js 164-167 and 206-209: the unsubscribe resolved.
\* unsubscribeFromRoom forgets the room and its cache entry;
\* checkRoomUnsubscription forgets only the room.
UnsubscribeOk(c) ==
    /\ c.op \in {"unsubscribe", "checkUnsubscription"}
    /\ subscribedRooms' = subscribedRooms \ {c.room}
    /\ roomSubscriptionCache' = IF c.op = "unsubscribe" THEN roomSubscriptionCache \ {c.room}
                                ELSE roomSubscriptionCache
    /\ busCalls' = busCalls \ {c}
    /\ UNCHANGED <<adapterFrame, socketRooms, socketKeys, adapterState>>

\* OptimizedRedisAdapter.js 168-170 and 211-213: the unsubscribe rejected: logged.
UnsubscribeFail(c) ==
    /\ c.op \in {"unsubscribe", "checkUnsubscription"}
    /\ busCalls' = busCalls \ {c}
    /\ UNCHANGED <<adapterFrame, subscribedRooms, socketRooms, socketKeys,
                   roomSubscriptionCache, adapterState>>

\* OptimizedRedisAdapter.js 196-205, checkRoomUnsubscription: whether it starts an
\* unsubscribe, scanning the Map as it is when handleDisconnect calls it.
checkRoomUnsubscription(room) == ~shouldSubscribe(room) /\ room \in subscribedRooms

\* OptimizedRedisAdapter.js 84-88, 174-181: the disconnect listener runs
\* handleDisconnect: every room of the socket is checked while the socket's set is
\* still in the Map, then the socket is removed from the Map.
handleDisconnect(s) ==
    /\ adapterState[s] = "ready"
    /\ adapterState' = [adapterState EXCEPT ![s] = "gone"]
    /\ LET rooms == IF s \in socketKeys THEN socketRooms[s] ELSE {}
       IN busCalls' = busCalls \cup
              {[op |-> "checkUnsubscription", sock |-> s, room |-> r] :
                  r \in {x \in rooms : checkRoomUnsubscription(x)}}
    /\ socketKeys' = socketKeys \ {s}
    /\ UNCHANGED <<adapterFrame, subscribedRooms, socketRooms, roomSubscriptionCache>>

\* OptimizedRedisAdapter.js 121-125 inside handleFailover: whether subscribeToRoom
\* suspends on subClient.subscribe for a room of the snapshot that the loop
\* reaches now: the room is in use, not cached and not subscribed.
NeedsResubscribe(room) ==
    shouldSubscribe(room) /\ room \notin roomSubscriptionCache' /\ room \notin subscribedRooms'

\* OptimizedRedisAdapter.js 28-32: the loop over the snapshot runs on from the
\* rooms `todo` until a subscribe has to be awaited or the snapshot is exhausted.
\* The Set is iterated in insertion order, which the model does not record: any
\* order is taken.  The rooms passed over are those that need no subscribe now.
FailoverLoop(todo, others) ==
    \/ /\ \A x \in todo : ~NeedsResubscribe(x)
       /\ busCalls' = others
    \/ \E r \in todo : \E rest \in SUBSET (todo \ {r}) :
          /\ NeedsResubscribe(r)
          /\ \A x \in (todo \ {r}) \ rest : ~NeedsResubscribe(x)
          /\ busCalls' = others \cup
                 {[op |-> "failover", sock |-> 0, room |-> r, todo |-> rest]}

\* OptimizedRedisAdapter.js 13-15, 18-32: `+failover-end` of a client: the
\* subscribed rooms are copied, both records are cleared, and the loop starts.
handleFailover ==
    /\ Cardinality(busCalls) < MaxBusCalls
    /\ subscribedRooms' = {}
    /\ roomSubscriptionCache' = {}
    /\ FailoverLoop(subscribedRooms, busCalls)
    /\ UNCHANGED <<adapterFrame, socketRooms, socketKeys, adapterState>>

\* OptimizedRedisAdapter.js 28-35, 133-135: the subscribe of the loop resolved: the
\* room is recorded and cached, and the loop goes on.
FailoverSubscribed(c) ==
    /\ c.op = "failover"
    /\ subscribedRooms' = subscribedRooms \cup {c.room}
    /\ roomSubscriptionCache' = roomSubscriptionCache \cup {c.room}
    /\ FailoverLoop(c.todo, busCalls \ {c})
    /\ UNCHANGED <<adapterFrame, socketRooms, socketKeys, adapterState>>

\* OptimizedRedisAdapter.js 36-38, 138-141: the subscribe of the loop rejected or
\* timed out: subscribeToRoom rethrows, the catch of handleFailover logs, and the
\* rest of the snapshot is not replayed.
FailoverSubscribeFail(c) ==
    /\ c.op = "failover"
    /\ busCalls' = busCalls \ {c}
    /\ UNCHANGED <<adapterFrame, subscribedRooms, socketRooms, socketKeys,
                   roomSubscriptionCache, adapterState>>

AdapterNext ==
    \/ \E s \in LocalSockets : handleConnection(s)
    \/ \E s \in LocalSockets : setupSocketListeners(s)
    \/ \E s \in LocalSockets : ConnectionTimeout(s)
    \/ \E s \in LocalSockets, r \in Rooms : handleRoomJoin(s, r)
    \/ \E c \in busCalls : SubscribeOk(c)
    \/ \E c \in busCalls : SubscribeFail(c)
    \/ \E s \in LocalSockets, r \in Rooms : handleRoomLeave(s, r)
    \/ \E c \in busCalls : UnsubscribeOk(c)
    \/ \E c \in busCalls : UnsubscribeFail(c)
    \/ \E s \in LocalSockets : handleDisconnect(s)
    \/ handleFailover
    \/ \E c \in busCalls : FailoverSubscribed(c)
    \/ \E c \in busCalls : FailoverSubscribeFail(c)

SpecAdapter == ConnSpecInit /\ [][AdapterNext]_vars

\* C10: whenever no subscribe or unsubscribe call is in flight, a room is in
\* subscribedRooms if and only if the room set of at least one tracked local
\* socket contains it.
C10_SubscribedIffInUse ==
    busCalls = {} => \A r \in Rooms : r \in subscribedRooms <=> shouldSubscribe(r)


\* C11: joins, leaves and disconnects of different local sockets for one room
\* lose no update: when an unsubscribe completes and the room leaves
\* subscribedRooms, no other tracked local socket is in the room (a join that overlapped
\* the in-flight unsubscribe keeps the room subscribed).
C11_UnsubscribeKeepsJoinedRoom ==
    [][\A c \in busCalls :
          (c \notin busCalls' /\ c.room \in subscribedRooms /\ c.room \notin subscribedRooms')
              => ~(\E k \in socketKeys' \ {c.sock} : c.room \in socketRooms'[k])]_vars


\* C12: a room leave for a room that no tracked local socket is in, with no bus
\* call for the room in flight, is a no-op: it starts no unsubscribe.
C12_LeaveOfUnusedRoomIsNoOp ==
    [][\A c \in busCalls' \ busCalls :
          (c.op = "unsubscribe" /\ ~(\E d \in busCalls : d.room = c.room))
              => shouldSubscribe(c.room)]_vars


\* C13: when handleFailover completes after its last subscribe resolved and no
\* other bus call is in flight, exactly the rooms that have a tracked local
\* socket are subscribed.
C13_FailoverReplaysLiveRooms ==
    [][\A c \in busCalls :
          (c.op = "failover" /\ c.room \in subscribedRooms' /\ busCalls' = {})
              => \A r \in Rooms :
                     r \in subscribedRooms' <=> (\E k \in socketKeys' : r \in socketRooms'[k])]_vars


\* ------------------------------------------- history reads: loadMessages
\* `before` values that JavaScript treats as absent (undefined, 0).
NoCursor == 0
\* oldestTimestamp of an empty list: messages[-1]?.timestamp is undefined.
NoTs == 0 - 1

Limits == 1..MaxLimit
Cursors == 0..(MaxClock + 1)

Min(a, b) == IF a <= b THEN a ELSE b
Take(q, n) == SubSeq(q, 1, Min(n, Len(q)))

RECURSIVE DescSeq(_)
DescSeq(S) == IF S = {} THEN <<>>
              ELSE LET x == CHOOSE y \in S : \A z \in S : y >= z
                   IN <<x>> \o DescSeq(S \ {x})

\* chatService.js 303-313: zrevrangebyscore(roomKey, before || '+inf', '-inf',
\* LIMIT 0 limit+1): the index members with score <= before, highest first.
IndexIds(r, before, limit) ==
    Take(DescSeq({ts \in Clock : <<r, ts>> \in cacheIndex
                                 /\ (before = NoCursor \/ ts <= before)}), limit + 1)

\* chatService.js 317-333: the payloads of the ids are fetched; ids without a
\* payload are dropped.
CachedMessages(r, ids) ==
    LET Present(ts) == cachePayload[<<r, ts>>] # 0
        kept == SelectSeq(ids, Present)
    IN [i \in 1..Len(kept) |-> cachePayload[<<r, kept[i]>>]]

\* Message.js 198-211, findRoomMessages: the rows of the room with timestamp
\* $lt before (no filter when before is absent).
DbRows(r, before) ==
    {i \in 1..Len(store) : /\ msgs[store[i].msg].room = r
                           /\ (before = NoCursor \/ msgs[store[i].msg].ts < before)}

\* sort({timestamp: -1}).limit(limit): rows with equal timestamps come in an order
\* the query does not fix; every such order is a possible outcome.
DbPages(r, before, limit) ==
    LET rows == DbRows(r, before)
        n == Cardinality(rows)
        sorted == {q \in [1..n -> rows] :
                      /\ \A i, j \in 1..n : i # j => q[i] # q[j]
                      /\ \A i, j \in 1..n :
                             i < j => msgs[store[q[i]].msg].ts >= msgs[store[q[j]].msg].ts}
    IN {[i \in 1..Min(limit, n) |-> store[q[i]].msg] : q \in sorted}

\* chatService.js 20-45, 77-94: enrichMessageData replaces the sender by what
\* getUserFromCache returns: the summary, or null when the lookup throws or finds
\* no record.  `ok` are the users whose lookup succeeds.
EnrichedSender(m, ok) ==
    IF msgs[m].sender = NoUser THEN "none"
    ELSE IF msgs[m].sender \in ok THEN "summary" ELSE "null"

enrichMessageData(q, ok) == [i \in 1..Len(q) |-> [msg |-> q[i], sender |-> EnrichedSender(q[i], ok)]]

\* chatService.js 284-288: the object loadMessages returns.
LoadReturn(r, before, limit, messages, path) ==
    [room |-> r, before |-> before, limit |-> limit, path |-> path,
     page |-> Take(messages, limit),
     hasMore |-> Len(messages) > limit,
     oldest |-> IF messages = <<>> THEN NoTs ELSE msgs[messages[Len(messages)].msg].ts]

loadFrame == <<now, msgs, messageBuffer, flights, store, calls, jobs, queueIndex, accepted,
               requeued, sockVars, sessVars, connVars, busVars, aiVars, extVars>>

\* chatService.js 265-288, 301-343: loadMessages reads the cache.  With `limit`
\* or more cached messages it returns them; otherwise it goes on to the Message
\* Store and suspends on the query.
loadMessagesFromRedis(r, before, limit) ==
    /\ loadCalls = {}
    /\ LET messages == CachedMessages(r, IndexIds(r, before, limit))
       IN IF Len(messages) < limit
          THEN /\ loadCalls' = {[room |-> r, before |-> before, limit |-> limit]}
               /\ UNCHANGED loadResult
          ELSE /\ \E ok \in SUBSET {"u1"} :
                     loadResult' = LoadReturn(r, before, limit,
                                              enrichMessageData(messages, ok), "cache")
               /\ UNCHANGED loadCalls
    /\ UNCHANGED <<loadFrame, cacheIndex, cachePayload>>

\* chatService.js 271-288, 350-383: the Message Store answered: the rows are
\* enriched, cacheMessages writes them to the cache, and the page is returned.
loadMessagesFromDB(c) ==
    /\ \E q \in DbPages(c.room, c.before, c.limit), ok \in SUBSET {"u1"} :
          /\ loadResult' = LoadReturn(c.room, c.before, c.limit,
                                      enrichMessageData(q, ok), "store")
          /\ cacheIndex' = MirrorIndex(q)
          /\ cachePayload' = MirrorPayload(cachePayload, q)
    /\ loadCalls' = loadCalls \ {c}
    /\ UNCHANGED loadFrame

\* chatService.js 124, 373, 418-422: a payload key reaches its TTL (set ... EX);
\* the flush adds index members without touching the TTL of the index.
PayloadExpire(k) ==
    /\ cachePayload[k] # 0
    /\ cachePayload' = [cachePayload EXCEPT ![k] = 0]
    /\ UNCHANGED <<loadFrame, cacheIndex, loadVars>>

\* A system message submitted in the history-read scenario.
HistorySubmit(r) == SubmitSystemMessage(r, MaxLoadMsgs)

LoadNext ==
    \/ Tick
    \/ \E r \in BusyRooms : HistorySubmit(r)
    \/ FlushStart
    \/ \E f \in flights : FlushBulkOk(f)
    \/ \E f \in flights : FlushCacheOk(f)
    \/ \E k \in Rooms \X Clock : PayloadExpire(k)
    \/ \E r \in BusyRooms, before \in Cursors, limit \in Limits :
           loadMessagesFromRedis(r, before, limit)
    \/ \E c \in loadCalls : loadMessagesFromDB(c)

SpecLoad == Init /\ [][LoadNext]_vars


\* ---------------------------------------------------- claims C14 .. C18
\* A loadMessages call returns in this step.
Returned == loadResult' # loadResult
PageTs(res, i) == msgs[res.page[i].msg].ts

\* C14: the page loadMessages returns has at most `limit` messages, all of the
\* room asked for, newest first, and with a cursor every one of them has a
\* timestamp strictly smaller than `before`.
C14_PageStrictlyOlderThanCursor ==
    [][Returned =>
          LET res == loadResult'
          IN /\ Len(res.page) <= res.limit
             /\ \A i \in 1..Len(res.page) :
                    /\ msgs[res.page[i].msg].room = res.room
                    /\ res.before # NoCursor => PageTs(res, i) < res.before
             /\ \A i, j \in 1..Len(res.page) : i < j => PageTs(res, i) >= PageTs(res, j)]_vars

\* C15: hasMore is true exactly when the Message Store holds more messages of
\* the room older than the cursor than the page returned.
C15_HasMoreIffOlderRemain ==
    [][Returned =>
          LET res == loadResult'
          IN res.hasMore <=> Cardinality(DbRows(res.room, res.before)) > Len(res.page)]_vars

\* C16: for a non-empty page, oldestTimestamp is the timestamp of the last
\* message of the page returned.
C16_OldestIsLastOfPage ==
    [][Returned =>
          LET res == loadResult'
          IN res.page # <<>> => res.oldest = PageTs(res, Len(res.page))]_vars

\* The cache can serve the page: the index returns at least `limit` ids for
\* the range and every id it returns has a payload.
CacheServes(r, before, limit) ==
    LET ids == IndexIds(r, before, limit)
    IN Len(ids) >= limit /\ \A i \in 1..Len(ids) : cachePayload[<<r, ids[i]>>] # 0

\* C17: a page is returned from the cache only if the cache can fully serve it;
\* with an empty index, too few entries or a missing payload the page comes from
\* the Message Store.
C17_CacheMissFallsBackToStore ==
    [][Returned =>
          LET res == loadResult'
          IN res.path = "cache" => CacheServes(res.room, res.before, res.limit)]_vars

\* Messages of room r at least as new as m.
NotOlder(m) == {x \in 1..Len(msgs) : msgs[x].room = msgs[m].room /\ msgs[x].ts >= msgs[m].ts}

\* C18: right after a successful flush (nothing buffered, no flush running), a
\* loadMessages call without cursor returns every flushed message of the room
\* that the page size can reach: one with at most `limit` messages of the room as
\* new as itself.
C18_FlushedMessageIsLoaded ==
    [][(Returned /\ messageBuffer = <<>> /\ flights = {}) =>
          LET res == loadResult'
          IN res.before = NoCursor =>
                 \A m \in accepted :
                     (msgs[m].room = res.room /\ InStore(m)
                      /\ Cardinality(NotOlder(m)) <= res.limit)
                         => \E i \in 1..Len(res.page) : res.page[i].msg = m]_vars


\* ---------------------------------------------------- history reads of chat messages
\* The read path over messages that carry a sender: a participant sends chat
\* messages, the buffer is flushed, and pages are loaded.
EnrichNext ==
    \/ \E r \in BusyRooms : ChatMessageBegin(1, r)
    \/ \E c \in calls : HandleMessageCacheWrite(c)
    \/ \E c \in calls : HandleMessagePush(c)
    \/ \E c \in calls : HandleMessageQueued(c)
    \/ FlushStart
    \/ \E f \in flights : FlushBulkOk(f)
    \/ \E f \in flights : FlushCacheOk(f)
    \/ \E r \in BusyRooms, before \in Cursors, limit \in Limits : loadMessagesFromRedis(r, before, limit)
    \/ \E c \in loadCalls : loadMessagesFromDB(c)

SpecEnrich == Init /\ [][EnrichNext]_vars

\* C19: when the sender lookup of a message fails, the page is still returned and
\* that message keeps its raw sender reference: no message that has a sender is
\* returned with the sender field null.
C19_FailedLookupKeepsRawSender ==
    [][Returned =>
          \A i \in 1..Len(loadResult'.page) :
              msgs[loadResult'.page[i].msg].sender # NoUser
                  => loadResult'.page[i].sender # "null"]_vars


\* ---------------------------------------------------- claim C20
\* The size threshold the flush trigger is meant to have, scaled to the model.
FlushThreshold == 2

\* C20: a submit that brings the buffer to the size threshold or above starts a
\* flush before it returns (the flush takes the whole buffer), so the step in
\* which a submit appends its message never leaves threshold-or-more messages in
\* the buffer.
C20_SubmitAtThresholdFlushes ==
    [][accepted' # accepted =>
          (Len(messageBuffer') < FlushThreshold \/ flights' # flights)]_vars


\* ---------------------------------------------------- claim C21
\* The cap the buffer is meant to have, scaled to the model.
BufferCap == 1

\* C21: the buffer never holds more than the cap: a submit that arrives while
\* the buffer is at the cap is rejected and leaves the buffer unchanged.
C21_BufferNeverExceedsCap == Len(messageBuffer) <= BufferCap


\* ---------------------------------------------------- at-least-once persistence
\* Store slots the messages still to be written need: the messages waiting in the
\* buffer or in a bulk write, and the messages not yet accepted.
Demand ==
    Cardinality({m \in MsgIds : \/ m \in Range(messageBuffer)
                                \/ \E f \in flights : f.pc = "bulk" /\ m \in Range(f.batch)})
        + (MaxMsgs - Cardinality(accepted))

\* A failing bulk write or cache pipeline, while the bounded store still has room
\* for a later successful write of everything pending.
LiveBulkFail(f, I) == FlushBulkFail(f, I) /\ Len(store') + Demand' <= MaxStore
LiveCacheFail(f) == FlushCacheFail(f) /\ Len(store') + Demand' <= MaxStore

LiveNext ==
    \/ \E r \in BusyRooms : ChatMessageBegin(1, r)
    \/ \E c \in calls : HandleMessageCacheWrite(c)
    \/ \E c \in calls : HandleMessagePush(c)
    \/ \E c \in calls : HandleMessageQueued(c)
    \/ \E r \in BusyRooms : HandleBulkMessages(r)
    \/ FlushStart
    \/ \E f \in flights : FlushBulkOk(f)
    \/ \E f \in flights : \E I \in SUBSET (1..Len(f.batch)) : LiveBulkFail(f, I)
    \/ \E f \in flights : FlushCacheOk(f)
    \/ \E f \in flights : LiveCacheFail(f)

\* chatService.js 16: setInterval keeps calling flushMessageBuffer; the store
\* eventually accepts a bulk write; a cache pipeline eventually settles.
LiveFairness ==
    /\ WF_vars(FlushStart)
    /\ SF_vars(\E f \in flights : FlushBulkOk(f))
    /\ WF_vars(\E f \in flights : FlushCacheOk(f) \/ LiveCacheFail(f))

SpecLive == Init /\ [][LiveNext]_vars /\ LiveFairness

TakenOver(e) ==
    /\ sockState[e] = "active"
    /\ sockState'[e] = "closed"
    /\ <<"session_ended", 0>> \in received'[e]

\* C23: the disconnect handling of a connection closed by a duplicate-login
\* takeover submits no "user disconnected" system message to the Batch Writer.
C23_TakeoverSubmitsNoMessage ==
    [][\A e \in Sockets : TakenOver(e) => msgs' = msgs]_vars


\* ---------------------------------------------------- claim C24
\* The joinRoom call c returns successfully in this step.
JoinSucceeds(c) ==
    /\ c.op = "joinRoom" /\ c.pc = "load"
    /\ c \notin roomCalls'
    /\ <<"joinRoomSuccess", c.room>> \in received'[c.sock] \ received[c.sock]

\* C24: when joinRoom(r2) succeeds, the user is in no other room: not in another
\* room's participant set, the socket is in no other socket room, and userRooms
\* maps the user to r2.
C24_JoinLeavesPreviousRoom ==
    [][\A c \in roomCalls : JoinSucceeds(c) =>
          /\ \A r \in Rooms \ {c.room} :
                 sockUser[c.sock] \notin participants'[r] /\ r \notin sockRooms'[c.sock]
          /\ userRooms'[SockProc(c.sock)][sockUser[c.sock]] = c.room]_vars


\* ---------------------------------------------------- AI Streaming Session Manager
MaxChunks == 2      \* chunks one generation delivers
MaxAiMsgs == 4      \* message objects ever created in the AI scenarios

\* What aiService.generateResponse hands to the callbacks: the text of a chunk
\* (chunk.currentChunk, possibly empty) and, on completion, the full content, which
\* is the concatenation of the chunks it delivered (g.sent).
ChunkTexts == {"Hel", "lo"}
NoChunk == ""
RECURSIVE Concat(_)
Concat(chunks) ==
    IF chunks = <<>> THEN <<>>
    ELSE IF Head(chunks) = NoChunk THEN Concat(Tail(chunks))
    ELSE <<Head(chunks)>> \o Concat(Tail(chunks))
FinalContent(g) == Concat(g.sent)

\* accumulatedContent += chunk.currentChunk || ''  (chat.js 524)
Accumulate(acc, ch) == IF ch = NoChunk THEN acc ELSE Append(acc, ch)

AiEvent(ev, g, content) == [ev |-> ev, id |-> g.id, room |-> g.room, content |-> content]

\* chat.js 497-519: the first segment of handleAIResponse: the id is built from
\* the AI name and Date.now(), the session is stored under it, aiMessageStart is
\* emitted to the room and the run suspends on aiService.generateResponse.
handleAIResponse(room, kind, c) ==
    LET g == [id |-> <<kind, now>>, room |-> room, acc |-> <<>>, sent |-> <<>>,
              msg |-> c.msg, sock |-> c.sock]
    IN /\ streamingSessions' = [streamingSessions EXCEPT ![g.id] = NewSession(room, kind)]
       /\ gens' = gens \cup {g}
       /\ aiEvents' = aiEvents \cup {AiEvent("aiMessageStart", g, <<>>)}

\* chat.js 292-304: handleMessage returned, the sender is acknowledged and the
\* content mentions the AI `kind`: handleAIResponse is called.
HandleMessageMention(c, kind) ==
    /\ MessageQueued(c)
    /\ handleAIResponse(msgs[c.msg].room, kind, c)

aiFrame == <<now, flights, store, cacheIndex, cachePayload, calls, jobs, queueIndex,
             requeued, sockVars, sessVars, connVars, busVars, loadVars, extVars>>

\* chat.js 523-540, onChunk: the chunk is appended to the content accumulated by
\* this run, the session stored under the id (if any) is updated, and
\* aiMessageChunk is emitted to the room.
onChunk(g, ch) ==
    /\ Len(g.sent) < MaxChunks
    /\ LET accumulatedContent == Accumulate(g.acc, ch)
           session == streamingSessions[g.id]
       IN /\ streamingSessions' =
                 IF session # NoSess
                 THEN [streamingSessions EXCEPT ![g.id] = [session EXCEPT !.content = accumulatedContent]]
                 ELSE streamingSessions
          /\ gens' = (gens \ {g}) \cup {[g EXCEPT !.acc = accumulatedContent, !.sent = Append(@, ch)]}
          /\ aiEvents' = aiEvents \cup {AiEvent("aiMessageChunk", g, accumulatedContent)}
    /\ UNCHANGED <<aiFrame, msgs, messageBuffer, accepted>>

\* The AI message onComplete builds (chat.js 543-556).
AiMsg(g, content) ==
    [room |-> g.room, ts |-> now, type |-> "ai", origin |-> "bulk", sender |-> NoUser,
     content |-> content]

\* chat.js 541-575, onComplete: the entry under the id is deleted, the AI message
\* is handed to handleBulkMessages and aiMessageComplete is emitted to the room.
onComplete(g) ==
    /\ Len(msgs) < MaxAiMsgs
    /\ streamingSessions' = [streamingSessions EXCEPT ![g.id] = NoSess]
    /\ msgs' = Append(msgs, AiMsg(g, FinalContent(g)))
    /\ BulkPush(Len(msgs) + 1)
    /\ aiEvents' = aiEvents \cup {AiEvent("aiMessageComplete", g, FinalContent(g))}
    /\ gens' = gens \ {g}
    /\ UNCHANGED aiFrame

\* chat.js 576-591, onError: the entry under the id is deleted and aiMessageError
\* is emitted to the room.
onError(g) ==
    /\ streamingSessions' = [streamingSessions EXCEPT ![g.id] = NoSess]
    /\ aiEvents' = aiEvents \cup {AiEvent("aiMessageError", g, <<>>)}
    /\ gens' = gens \ {g}
    /\ UNCHANGED <<aiFrame, msgs, messageBuffer, accepted>>

\* chat.js 593-606: generateResponse rejects: the catch block does the same.
GenerateResponseThrows(g) ==
    /\ streamingSessions' = [streamingSessions EXCEPT ![g.id] = NoSess]
    /\ aiEvents' = aiEvents \cup {AiEvent("aiMessageError", g, <<>>)}
    /\ gens' = gens \ {g}
    /\ UNCHANGED <<aiFrame, msgs, messageBuffer, accepted>>

\* The sockets whose users talk to the AI.
AiSockets == {1, 2}

AiNext ==
    \/ Tick
    \/ \E s \in AiSockets, r \in BusyRooms : ChatMessageBegin(s, r)
    \/ \E c \in calls : HandleMessageCacheWrite(c)
    \/ \E c \in calls : HandleMessagePush(c)
    \/ \E c \in calls, kind \in AiKinds : HandleMessageMention(c, kind)
    \/ \E g \in gens : onChunk(g, "Hel")
    \/ \E g \in gens : onComplete(g)
    \/ \E g \in gens : onError(g)
    \/ \E g \in gens : GenerateResponseThrows(g)
    \/ \E s \in AiSockets, reason \in DisconnectReasons : Disconnect(s, reason)
    \/ \E c \in roomCalls : DisconnectPulled(c)

SpecAI == Init /\ [][AiNext]_vars


\* ---------------------------------------------------- claims C26 .. C28
\* A callback of generation g (chunk, complete, error) runs in this step.
CallbackRuns(g) == g \in gens /\ g \notin gens'

\* C26: a Chunk, Completed or Errored callback that runs when the session of its
\* id is already gone is a no-op: it emits no event and submits no message.
C26_CallbackAfterRemovalIsNoOp ==
    [][\A g \in gens : (CallbackRuns(g) /\ streamingSessions[g.id] = NoSess)
                           => (aiEvents' = aiEvents /\ msgs' = msgs)]_vars

\* C27: once the socket whose message started a generation has disconnected, no
\* session of that generation is left in streamingSessions.
C27_OwnerDisconnectRemovesSession ==
    \A g \in gens : sockState[g.sock] = "closed" => streamingSessions[g.id] = NoSess

\* C28: two generations running at the same time have distinct ids, so neither
\* overwrites or removes the other's session entry.
C28_ConcurrentGenerationsDistinctIds ==
    \A g1, g2 \in gens : g1 # g2 => g1.id # g2.id


\* ---------------------------------------------------- AI message in the history
\* The state in which u1's chat message in R1 mentioning wayneAI has been
\* handled (cached, buffered, queued, acknowledged) and its generation has started.
AiStarted ==
    LET c == [msg |-> 1, pc |-> "queue", sock |-> 1]
        g == [id |-> <<"wayneAI", 0>>, room |-> "R1", acc |-> <<>>, sent |-> <<>>,
              msg |-> 1, sock |-> 1]
    IN /\ now = 0
       /\ msgs = <<[room |-> "R1", ts |-> 0, type |-> "text", origin |-> "chat", sender |-> "u1"]>>
       /\ messageBuffer = <<1>>
       /\ accepted = {1}
       /\ cacheIndex = {<<"R1", 0>>}
       /\ cachePayload = [k \in Rooms \X Clock |-> IF k = <<"R1", 0>> THEN 1 ELSE 0]
       /\ jobs = {1}
       /\ calls = {}
       /\ flights = {} /\ store = <<>> /\ queueIndex = {} /\ requeued = {}
       /\ streamingSessions = [id \in AiIds |-> IF id = g.id THEN NewSession("R1", "wayneAI") ELSE NoSess]
       /\ gens = {g}
       /\ aiEvents = {AiEvent("aiMessageStart", g, <<>>)}
       /\ sockState = [s \in Sockets |-> "active"]
       /\ sockRooms = [s \in Sockets |-> {"R1"}]
       /\ received = [s \in Sockets |-> IF s = 1 THEN {<<"messageSent", 1>>} ELSE {}]
       /\ broadcasts = {}
       /\ participants = [r \in Rooms |-> IF r = "R1" THEN Users ELSE {}]
       /\ sockUser = [s \in Sockets |-> <<"u1", "u2", "u3">>[s]]
       /\ sockSession = [s \in Sockets |-> s]

AiLoadInit == AiStarted /\ LoggedInInit /\ RegisteredInit /\ BusInit /\ LoadInit /\ ExtInit

\* The generation runs, the room also gets system messages, the buffer is
\* flushed and pages are loaded.
AiLoadNext ==
    \/ Tick
    \/ \E g \in gens, ch \in ChunkTexts \cup {NoChunk} : onChunk(g, ch)
    \/ \E g \in gens : onComplete(g)
    \/ \E r \in BusyRooms : HistorySubmit(r)
    \/ FlushStart
    \/ \E f \in flights : FlushBulkOk(f)
    \/ \E f \in flights : FlushCacheOk(f)
    \/ \E r \in BusyRooms, limit \in Limits : loadMessagesFromRedis(r, NoCursor, limit)
    \/ \E c \in loadCalls : loadMessagesFromDB(c)

SpecAiLoad == AiLoadInit /\ [][AiLoadNext]_vars

\* Generation g completes in this step.
Completes(g) == g \in gens /\ g \notin gens' /\ Len(msgs') = Len(msgs) + 1

\* The AI messages accepted so far.
AiMessages == {m \in accepted : msgs[m].type = "ai"}

\* C25: when a generation that received chunks c1..cn completes, the completion
\* event carries the concatenation c1...cn, which is also what the session
\* accumulated, and a message of type "ai" with that content is submitted to the
\* Batch Writer; a loadMessages call after the flush returns that message (when
\* the page size reaches it).
C25_CompletedContentIsLoaded ==
    [][/\ \A g \in gens : Completes(g) =>
              /\ g.acc = Concat(g.sent)
              /\ AiEvent("aiMessageComplete", g, Concat(g.sent)) \in aiEvents'
              /\ msgs'[Len(msgs')].type = "ai"
              /\ msgs'[Len(msgs')].content = Concat(g.sent)
              /\ Len(msgs') \in accepted'
       /\ (Returned /\ messageBuffer = <<>> /\ flights = {}) =>
              \A m \in AiMessages :
                  (msgs[m].room = loadResult'.room /\ InStore(m)
                   /\ Cardinality(NotOlder(m)) <= loadResult'.limit)
                      => \E i \in 1..Len(loadResult'.page) : loadResult'.page[i].msg = m]_vars


\* A joinRoom call is a retransmission when the state already shows the effect of
\* an earlier delivery of the same joinRoom(r): the user is recorded in r, is a
\* participant of r and the socket is in r.
Retransmitted(c) ==
    /\ c.op = "joinRoom" /\ c.pc = "update"
    /\ userRooms[SockProc(c.sock)][sockUser[c.sock]] = c.room
    /\ sockUser[c.sock] \in participants[c.room]
    /\ c.room \in sockRooms[c.sock]

\* C29: delivering the same joinRoom(r) a second time leaves the participant set
\* of the room, userRooms and the Batch Writer buffer as the first delivery left
\* them: the step in which the second delivery takes effect changes none of
\* them and submits no message.  (A second leaveRoom(r) returns at chat.js 322
\* before any step.)
C29_RetransmittedJoinChangesNothing ==
    [][\A c \in roomCalls :
          (Retransmitted(c) /\ c \notin roomCalls') =>
              /\ participants' = participants
              /\ userRooms' = userRooms
              /\ messageBuffer' = messageBuffer
              /\ msgs' = msgs]_vars


\* The store position at which message m first became durable.
FirstPos(m) == CHOOSE i \in 1..Len(store) :
                   store[i].msg = m /\ \A j \in 1..(i - 1) : store[j].msg # m

\* handleBulkMessages builds and pushes its message in one event-loop step, so
\* the ids of these messages are in submission order.
SubmittedInOrder(m1, m2) ==
    /\ m1 < m2
    /\ msgs[m1].origin = "bulk" /\ msgs[m2].origin = "bulk"
    /\ msgs[m1].room = msgs[m2].room

\* C30: of two messages of one room submitted to the Batch Writer, the earlier one
\* is durable no later than the later one, and inside a batch the messages are
\* persisted in submission order: whenever the later one is in the Message Store
\* the earlier one is there at an earlier position, also after a requeue and
\* with submissions during a flush.
C30_DurableInSubmissionOrder ==
    \A m1, m2 \in accepted :
        (SubmittedInOrder(m1, m2) /\ InStore(m2)) =>
            (InStore(m1) /\ FirstPos(m1) < FirstPos(m2))


\* Number of positions of the sequence q that hold m.
Occ(m, q) == Cardinality({i \in 1..Len(q) : q[i] = m})

FlightsHolding(m) == {f \in flights : m \in Range(f.batch)}

\* C34: every accepted message that is not yet in the Message Store is in exactly
\* one place: once in messageBuffer and in no in-flight batch, or once in
\* exactly one in-flight batch and not in messageBuffer.
C34_PendingMessageInOnePlace ==
    \A m \in accepted :
        ~InStore(m) =>
            \/ Occ(m, messageBuffer) = 1 /\ FlightsHolding(m) = {}
            \/ /\ Occ(m, messageBuffer) = 0
               /\ Cardinality(FlightsHolding(m)) = 1
               /\ \A f \in FlightsHolding(m) : Occ(m, f.batch) = 1

\* Two flushMessageBuffer runs overlap, the second started with a message that was
\* submitted during the first, and neither batch is durable yet.
C34_OverlappingFlushes ==
    /\ \E f1, f2 \in flights : f1 # f2 /\ f1.pc = "bulk" /\ f2.pc = "bulk"
    /\ Cardinality(accepted) = 2
    /\ \A m \in accepted : ~InStore(m)


C36_CachingNeverOverwrites ==
    [][\A k \in Rooms \X Clock :
          cachePayload[k] # 0 => cachePayload'[k] \in {cachePayload[k], 0}]_vars


\* The messages of the pages' room that the Message Store holds.
StoredOf(r) == {store[i].msg : i \in DbRows(r, NoCursor)}

\* C37: pagination from no cursor until hasMore is false returns every message of
\* the room exactly once.  Its one-page case: when the first call (no cursor)
\* returns hasMore = false the pagination is over, so that page holds every
\* message of the room in the Message Store, each once.
C37_LastPageCompletesTheRoom ==
    [][(Returned /\ loadResult'.before = NoCursor /\ ~loadResult'.hasMore) =>
          LET res == loadResult'
          IN /\ \A m \in StoredOf(res.room) : \E i \in 1..Len(res.page) : res.page[i].msg = m
             /\ \A i, j \in 1..Len(res.page) : i # j => res.page[i].msg # res.page[j].msg]_vars


\* The socket registered for the user of socket e on e's process, when that is
\* another socket and it is connected; 0 otherwise.
NewerConnection(e) ==
    LET n == connectedUsers[SockProc(e)][sockUser[e]]
    IN IF n \in Sockets \ {e} /\ sockState[n] = "active" THEN n ELSE 0

\* C38: when a socket that is not the user's registered socket disconnects, the
\* state of the user's newer connection is left unchanged: its connectedUsers
\* entry and, for a room the newer socket has joined, its userRooms entry in the
\* step the socket closes and the user's membership in the room's participant
\* set when the disconnect handler of the closed socket resumes.
C38_StaleDisconnectLeavesNewerConnection ==
    [][/\ \A e \in Sockets :
            (sockState[e] = "active" /\ sockState'[e] = "closed" /\ NewerConnection(e) # 0) =>
                /\ connectedUsers'[SockProc(e)][sockUser[e]] = NewerConnection(e)
                /\ userRooms[SockProc(e)][sockUser[e]] \in sockRooms[NewerConnection(e)] =>
                       userRooms'[SockProc(e)][sockUser[e]] = userRooms[SockProc(e)][sockUser[e]]
       /\ \A c \in roomCalls :
            (/\ c.op = "disconnect" /\ c \notin roomCalls'
             /\ NewerConnection(c.sock) # 0
             /\ c.room \in sockRooms[NewerConnection(c.sock)]) =>
                participants' = participants]_vars


\* C40: the Map socketRooms of the bus adapter has entries only for sockets that
\* are currently connected: after a socket disconnected, raised an error or
\* failed its initialization, its entry has been removed.
C40_MapsHoldOnlyConnectedSockets ==
    \A s \in socketKeys : adapterState[s] \in {"init", "ready"}



\* ---------------------------------------------------- sessions that get no callback
\* A generation is running; chunks, completion and errors arrive or never do,
\* sockets leave the room or disconnect.  chat.js has no timer on the sessions.
StaleNext ==
    \/ Tick
    \/ \E g \in gens, ch \in ChunkTexts \cup {NoChunk} : onChunk(g, ch)
    \/ \E g \in gens : onComplete(g)
    \/ \E g \in gens : onError(g)
    \/ \E g \in gens : GenerateResponseThrows(g)
    \/ \E s \in AiSockets, reason \in DisconnectReasons : Disconnect(s, reason)
    \/ \E c \in roomCalls : DisconnectPulled(c)
    \/ \E s \in AiSockets, r \in BusyRooms : LeaveRoomBegin(s, r)
    \/ \E c \in roomCalls : LeaveRoomFound(c)
    \/ \E c \in roomCalls : LeaveRoomPulled(c)

\* Time passes and the Room collection answers; the AI service owes no callback.
StaleFairness ==
    /\ WF_vars(Tick)
    /\ WF_vars(\E c \in roomCalls : DisconnectPulled(c))
    /\ WF_vars(\E c \in roomCalls : LeaveRoomFound(c))
    /\ WF_vars(\E c \in roomCalls : LeaveRoomPulled(c))

SpecStale == AiLoadInit /\ [][StaleNext]_vars /\ StaleFairness

\* C32: every session in streamingSessions is eventually removed, also when the AI
\* service never calls onComplete or onError for it.
C32_SessionEventuallyRemoved ==
    \A id \in AiIds : (streamingSessions[id] # NoSess) ~> (streamingSessions[id] = NoSess)



\* ---------------------------------------------------- chatMessage payloads
\* Message.js 15: maxlength of content.
MaxContentLength == 10000

\* What a client may put in messageData.type and messageData.content.  A content
\* string is given by the number of surrounding blanks and the length of the rest;
\* NoContent and NoType stand for an absent field.
NoType == "undefined"
NoContent == [pad |-> 0, core |-> 0 - 1]
ClientTypes == {NoType, "text", "file", "ai", "system"}
ClientContents ==
    {NoContent} \cup {[pad |-> p, core |-> c] : p \in {0, 1}, c \in {0, 1, MaxContentLength + 1}}

\* content?.trim() (chat.js 282, chatService.js 101)
Trim(content) == IF content = NoContent THEN NoContent ELSE [pad |-> 0, core |-> content.core]

\* JavaScript truthiness of the trimmed content: undefined and '' are falsy.
Truthy(content) == content # NoContent /\ content.pad + content.core > 0

\* chatService.js 98-105: the message object handleMessage builds from msgData;
\* it has no aiType field.
BuiltMessage(r, type, content, u) ==
    [room |-> r, ts |-> now, type |-> IF type = NoType THEN "text" ELSE type,
     origin |-> "chat", sender |-> u, content |-> Trim(content), aiType |-> "none"]

\* chat.js 266-292 and chatService.js 96-113 for a payload with the given type
\* and content: the checks of the handler (a text message with blank content is
\* dropped silently at 283), then handleMessage builds the message and suspends.
ChatMessageInput(s, r, type, content) ==
    /\ sockState[s] = "active"
    /\ sockUser[s] \in participants[r]
    /\ SessionMatches(sockUser[s], sockSession[s])
    /\ ~(type = "text" /\ ~Truthy(Trim(content)))
    /\ Len(msgs) < MaxMsgs
    /\ msgs' = Append(msgs, BuiltMessage(r, type, Trim(content), sockUser[s]))
    /\ calls' = calls \cup {[msg |-> Len(msgs) + 1, pc |-> "cache", sock |-> s]}
    /\ UNCHANGED <<now, messageBuffer, flights, store, cacheIndex, cachePayload,
                   jobs, queueIndex, accepted, requeued, sockVars, sideVars>>

ValidNext ==
    \/ Tick
    \/ \E r \in BusyRooms, type \in ClientTypes, content \in ClientContents :
           ChatMessageInput(1, r, type, content)
    \/ \E c \in calls : HandleMessageCacheWrite(c)
    \/ \E c \in calls : HandleMessagePush(c)
    \/ \E c \in calls : HandleMessageQueued(c)

SpecValid == Init /\ [][ValidNext]_vars

\* Message.js 8-16, 22-38: the validators of the schema on content and aiType.
MessageInvariant(m) ==
    /\ m.type # "file" => Truthy(m.content)
    /\ m.aiType # "none" <=> m.type = "ai"
    /\ m.content # NoContent => m.content.pad + m.content.core <= MaxContentLength

\* C31: every message in the Batch Writer buffer satisfies the Message invariant
\* (content present unless type = file, aiType present iff type = ai, content at
\* most 10000 characters): a chatMessage that would violate it never enters the
\* buffer.
C31_BufferedMessagesAreValid ==
    \A m \in accepted : MessageInvariant(msgs[m])



\* ---------------------------------------------------- fetchPreviousMessages
MaxFetches == 2     \* fetchPreviousMessages requests ever started

\* chat.js 16, 18, 20
BATCH_SIZE == 30
MAX_RETRIES == 3
RETRY_DELAY == 2000

RECURSIVE Pow2(_)
Pow2(k) == IF k = 0 THEN 1 ELSE 2 * Pow2(k - 1)

\* chat.js 70: Math.min(RETRY_DELAY * Math.pow(2, currentRetries), 10000)
Backoff(currentRetries) == Min(RETRY_DELAY * Pow2(currentRetries), 10000)

RetryKey(q) == <<q.room, sockUser[q.sock]>>

\* messageLoadRetries.get(retryKey) || 0
CurrentRetries(q) ==
    IF messageLoadRetries[RetryKey(q)] = NoEntry THEN 0 ELSE messageLoadRetries[RetryKey(q)]

\* The request ends: what the handler emits to the socket is recorded with the
\* number of loads it made and whether its key is in the map now.
FetchEnds(q, outcome) ==
    /\ fetches' = fetches \ {q}
    /\ fetchDone' = fetchDone \cup
           {[id |-> q.id, loads |-> q.loads, delays |-> q.delays, outcome |-> outcome,
             keyLeft |-> messageLoadRetries'[RetryKey(q)] # NoEntry]}
    /\ received' = EmitTo(q.sock, outcome, q.id)

\* chat.js 56-62: one call of loadMessagesWithRetry up to its await.  With
\* MAX_RETRIES recorded for the key it throws before loading; its catch block
\* (66-76) then finds no retry left, deletes the key and rethrows to the handler
\* (168-174).  Otherwise it suspends on ChatService.loadMessages.
Attempt(q) ==
    IF CurrentRetries(q) >= MAX_RETRIES
    THEN /\ messageLoadRetries' = [messageLoadRetries EXCEPT ![RetryKey(q)] = NoEntry]
         /\ FetchEnds(q, "error")
    ELSE /\ fetches' = (fetches \ {q}) \cup {[q EXCEPT !.pc = "load", !.loads = @ + 1]}
         /\ UNCHANGED <<messageLoadRetries, fetchDone, received>>

retryFrame == <<batchVars, sockState, sockUser, sockSession, sockRooms, broadcasts,
                participants, sessVars, connVars, busVars, loadVars, aiVars, reactVars>>

\* chat.js 158-161: the handler suspends on Room.findOne.
FetchBegin(s, r) ==
    /\ sockState[s] = "active"
    /\ Cardinality(fetches) + Cardinality(fetchDone) < MaxFetches
    /\ fetches' = fetches \cup
           {[id |-> Cardinality(fetches) + Cardinality(fetchDone) + 1, sock |-> s, room |-> r,
             pc |-> "room", loads |-> 0, delays |-> <<>>]}
    /\ UNCHANGED <<retryFrame, received, messageLoadRetries, fetchDone>>

\* chat.js 161-165: the room lookup answered.  For a participant messageLoadStart
\* is emitted and loadMessagesWithRetry is called; otherwise the handler reports
\* the error.
FetchRoomFound(q) ==
    /\ q.pc = "room"
    /\ IF sockUser[q.sock] \in participants[q.room]
       THEN Attempt(q)
       ELSE UNCHANGED messageLoadRetries /\ FetchEnds(q, "error")
    /\ UNCHANGED retryFrame

\* chat.js 62-64, 166 and chatService.js 265-288: loadMessages returned a page
\* (from the cache, or from the Message Store with the cache rebuilt): the key is
\* deleted and previousMessagesLoaded is emitted.
FetchLoadOk(q) ==
    /\ q.pc = "load"
    /\ LET cached == CachedMessages(q.room, IndexIds(q.room, NoCursor, BATCH_SIZE))
       IN IF Len(cached) >= BATCH_SIZE
          THEN UNCHANGED <<cacheIndex, cachePayload>>
          ELSE \E pg \in DbPages(q.room, NoCursor, BATCH_SIZE) :
                   /\ cacheIndex' = MirrorIndex(pg)
                   /\ cachePayload' = MirrorPayload(cachePayload, pg)
    /\ messageLoadRetries' = [messageLoadRetries EXCEPT ![RetryKey(q)] = NoEntry]
    /\ FetchEnds(q, "previousMessagesLoaded")
    /\ UNCHANGED <<now, msgs, messageBuffer, flights, store, calls, jobs, queueIndex,
                   accepted, requeued, sockState, sockUser, sockSession, sockRooms,
                   broadcasts, participants, sessVars, connVars, busVars, loadVars, aiVars,
                   reactVars>>

\* chat.js 65-76 and chatService.js 289-298: loadMessages threw (its fallback query
\* failed too).  With a retry left the count of the key is raised and the call
\* sleeps for the backoff delay; otherwise the key is deleted and the error goes
\* to the handler.
FetchLoadFail(q) ==
    /\ q.pc = "load"
    /\ IF CurrentRetries(q) < MAX_RETRIES
       THEN /\ messageLoadRetries' =
                   [messageLoadRetries EXCEPT ![RetryKey(q)] = CurrentRetries(q) + 1]
            /\ fetches' = (fetches \ {q}) \cup
                   {[q EXCEPT !.pc = "delay",
                              !.delays = Append(@, Backoff(CurrentRetries(q)))]}
            /\ UNCHANGED <<fetchDone, received>>
       ELSE /\ messageLoadRetries' = [messageLoadRetries EXCEPT ![RetryKey(q)] = NoEntry]
            /\ FetchEnds(q, "error")
    /\ UNCHANGED retryFrame

\* chat.js 73-74: the delay is over and loadMessagesWithRetry calls itself.
FetchRetry(q) ==
    /\ q.pc = "delay"
    /\ Attempt(q)
    /\ UNCHANGED retryFrame

RetryNext ==
    \/ \E s \in {1, 2}, r \in Rooms : FetchBegin(s, r)
    \/ \E q \in fetches : FetchRoomFound(q)
    \/ \E q \in fetches : FetchLoadOk(q)
    \/ \E q \in fetches : FetchLoadFail(q)
    \/ \E q \in fetches : FetchRetry(q)

SpecRetry == Init /\ [][RetryNext]_vars

\* C33: one fetchPreviousMessages request makes at most MAX_RETRIES + 1 = 4 load
\* attempts, sleeps only for backoff delays min(2000 * 2^k, 10000), and when it
\* has returned a page or thrown, messageLoadRetries has no entry for its
\* room:user key; also when requests of the same room and user run together.
C33_BoundedLoadAttempts ==
    /\ \A q \in fetches \cup fetchDone :
           /\ q.loads <= MAX_RETRIES + 1
           /\ \A i \in 1..Len(q.delays) :
                  \E k \in 0..MAX_RETRIES : q.delays[i] = Min(2000 * Pow2(k), 10000)
    /\ \A d \in fetchDone : ~d.keyLeft



\* ---------------------------------------------------- messageReaction
MaxReactions == 2   \* messageReaction events ever handled

ReactionTypes == {"add", "remove"}
reactFrame == <<batchVars, sockState, sockUser, sockSession, sockRooms, broadcasts,
                participants, sessVars, connVars, busVars, loadVars, aiVars, retryVars>>

\* The handler ends: the event it emits is recorded with the reactions it
\* carries, the stored reactions right after its update and those stored now.
ReactionEnds(c, ev, carried) ==
    /\ reactCalls' = reactCalls \ {c}
    /\ reactionEvents' = reactionEvents \cup
           {[id |-> c.id, ev |-> ev, msg |-> c.msg, carried |-> carried,
             after |-> c.after, stored |-> reactions[c.msg]]}
    /\ received' = IF ev = "error" THEN EmitTo(c.sock, "error", c.msg)
                   ELSE Deliver(msgs[c.msg].room, ev, c.msg)

\* chat.js 387-391 and chatService.js 205-207: the handler calls handleReaction,
\* which suspends on Message.findById.
ReactionBegin(s, m, type) ==
    /\ sockState[s] = "active"
    /\ Cardinality(reactCalls) + Cardinality(reactionEvents) < MaxReactions
    /\ reactCalls' = reactCalls \cup
           {[id |-> Cardinality(reactCalls) + Cardinality(reactionEvents) + 1, sock |-> s,
             msg |-> m, type |-> type, pc |-> "find", after |-> {}, read |-> {}]}
    /\ UNCHANGED <<reactFrame, received, reactions, idCache, reactionEvents>>

\* chatService.js 207-218: the lookup answered.  Without the message
\* handleReaction throws and the handler reports the error; otherwise
\* addReaction / removeReaction suspends on findOneAndUpdate.
ReactionFound(c) ==
    /\ c.pc = "find"
    /\ IF InStore(c.msg)
       THEN /\ reactCalls' = (reactCalls \ {c}) \cup {[c EXCEPT !.pc = "update"]}
            /\ UNCHANGED <<received, reactionEvents>>
       ELSE ReactionEnds(c, "error", {})
    /\ UNCHANGED <<reactFrame, reactions, idCache>>

\* Message.js 248-290 and chatService.js 220-223, 233-245: the update was applied
\* to the stored message ($push unless present, $pull); nothing is written to
\* the cache; the handler calls getMessageById, which suspends on the cache read.
ReactionUpdated(c) ==
    /\ c.pc = "update"
    /\ reactions' = [reactions EXCEPT ![c.msg] =
                        IF c.type = "add" THEN @ \cup {sockUser[c.sock]}
                        ELSE @ \ {sockUser[c.sock]}]
    /\ reactCalls' = (reactCalls \ {c}) \cup
                         {[c EXCEPT !.pc = "get", !.after = reactions'[c.msg]]}
    /\ UNCHANGED <<reactFrame, received, idCache, reactionEvents>>

\* chatService.js 244-252 and chat.js 393-398: the cache answered.  A cached copy
\* is returned as it is and its reactions are broadcast; without one
\* getMessageById suspends on Message.findById.
ReactionCacheRead(c) ==
    /\ c.pc = "get"
    /\ IF idCache[c.msg] # NoCopy
       THEN ReactionEnds(c, "messageReactionUpdate", idCache[c.msg])
       ELSE /\ reactCalls' = (reactCalls \ {c}) \cup {[c EXCEPT !.pc = "db"]}
            /\ UNCHANGED <<received, reactionEvents>>
    /\ UNCHANGED <<reactFrame, reactions, idCache>>

\* chatService.js 250-257: the stored message was read; after the enrichment
\* getMessageById suspends on setex.
ReactionDbRead(c) ==
    /\ c.pc = "db"
    /\ reactCalls' = (reactCalls \ {c}) \cup
                         {[c EXCEPT !.pc = "set", !.read = reactions[c.msg]]}
    /\ UNCHANGED <<reactFrame, received, reactions, idCache, reactionEvents>>

\* chatService.js 257-258 and chat.js 393-398: the copy is cached under the
\* message id for CACHE_TTL and its reactions are broadcast to the room.
ReactionCached(c) ==
    /\ c.pc = "set"
    /\ idCache' = [idCache EXCEPT ![c.msg] = c.read]
    /\ ReactionEnds(c, "messageReactionUpdate", c.read)
    /\ UNCHANGED <<reactFrame, reactions>>

ReactNext ==
    \/ \E r \in BusyRooms : HandleBulkMessages(r)
    \/ FlushStart
    \/ \E f \in flights : FlushBulkOk(f)
    \/ \E f \in flights : FlushCacheOk(f)
    \/ \E s \in {1, 2}, m \in MsgIds, type \in ReactionTypes : ReactionBegin(s, m, type)
    \/ \E c \in reactCalls : ReactionFound(c)
    \/ \E c \in reactCalls : ReactionUpdated(c)
    \/ \E c \in reactCalls : ReactionCacheRead(c)
    \/ \E c \in reactCalls : ReactionDbRead(c)
    \/ \E c \in reactCalls : ReactionCached(c)

SpecReact == Init /\ [][ReactNext]_vars

\* C39: the messageReactionUpdate event emitted after a reaction was applied
\* carries the reactions of the message as stored after that update (as they
\* were right after it, or as they are when the event is emitted), never a copy
\* cached before the update.
C39_ReactionUpdateCarriesStoredState ==
    \A e \in reactionEvents :
        e.ev = "messageReactionUpdate" => e.carried \in {e.after, e.stored}

=============================================================================
